---- MODULE Spec2Model ----
(***************************************************************************)
(* CHM to PDF conversion: the table-of-contents parser, the sequencer that *)
(* ranks the extracted documents, the merge order resolver and the         *)
(* pipeline that runs them.  File names and paths are sequences of         *)
(* one-character strings, so that splitting, formatting and pattern        *)
(* matching are computed the way the Python code computes them.            *)
(***************************************************************************)
EXTENDS Integers, Sequences, FiniteSets, TLC

VARIABLES
    fs,                   \* the filesystem: file path -> content
    dirs,                 \* the directories that exist
    html_files,           \* _copy_files_in_order's argument
    pos,                  \* references the cloud loop has iterated over
    last_copied,          \* cloud loop: basename of the last copy, or None
    index,                \* cloud loop: the next rank
    emitted,              \* cloud loop: one entry per "Copied:" line
    desired_order,        \* orderHTM.py: the sanitized reference list
    l_pos,                \* orderHTM.py: references iterated over
    last_copied_filename, \* orderHTM.py: basename of the last copy, or None
    l_index,              \* orderHTM.py: the next rank
    printed,              \* orderHTM.py: one entry per "Copied" line
    hhc,                  \* the table of contents: the elements of the .hhc file
    parse_pos,            \* elements _parse_hhc_file has iterated over
    pdf_files,            \* combine_pdfs / combinePDFs.py: the list of PDF paths
    m_pos,                \* PDFs the append loop has iterated over
    merger,               \* the contents appended to the PdfMerger so far
    chm,                  \* the CHM file named on the command line
    hhc_path,             \* main: what find_hhc_file returned
    started,              \* main: the stages called so far, in order
    returned,             \* main: what each stage called has returned
    conv_files,           \* convert_all: the sorted list of HTML files
    conv_result,          \* convert_all: what each worker has returned
    proc_files,           \* process_all: the sorted list of HTML files
    proc_result,          \* process_all: what each worker has returned
    htm_files_sorted,     \* removeText.py: the sorted list of documents
    r_pos,                \* removeText.py: documents the loop has rewritten
    flat_passes,          \* the flattening passes run on a directory, in order
    html_content,         \* the markup of the document a normalizer reads
    soup,                 \* the markup the normalizer writes back
    os_name,              \* the platform of os.path: "posix" or "nt"
    pc                    \* the position of the running program

vars == <<fs, dirs, html_files, pos, last_copied, index, emitted,
          desired_order, l_pos, last_copied_filename, l_index, printed,
          hhc, parse_pos, pdf_files, m_pos, merger,
          chm, hhc_path, started, returned, conv_files, conv_result,
          proc_files, proc_result, htm_files_sorted, r_pos,
          flat_passes, html_content, soup, os_name, pc>>

cloudVars == <<html_files, pos, last_copied, index, emitted>>
legacyVars == <<desired_order, l_pos, last_copied_filename, l_index, printed>>
parseVars == <<hhc, parse_pos>>
mergeVars == <<pdf_files, m_pos, merger>>
mainVars == <<chm, hhc_path, started, returned, conv_files, conv_result>>
normVars == <<proc_files, proc_result, htm_files_sorted, r_pos>>
textVars == <<flat_passes, html_content, soup, os_name>>

----------------------------------------------------------------------------
(* Python values *)

None == <<>>
Some(x) == <<x>>

Digits == <<"0", "1", "2", "3", "4", "5", "6", "7", "8", "9">>
IsDigit(c) == c \in {"0", "1", "2", "3", "4", "5", "6", "7", "8", "9"}
DigitVal(c) == CHOOSE d \in 0..9 : Digits[d + 1] = c

RECURSIVE DecDigits(_)
DecDigits(n) ==
    IF n < 10 THEN <<Digits[n + 1]>>
    ELSE DecDigits(n \div 10) \o <<Digits[(n % 10) + 1]>>

RECURSIVE Zeros(_)
Zeros(k) == IF k <= 0 THEN <<>> ELSE <<"0">> \o Zeros(k - 1)

\* f"{index:04d}": decimal, padded with zeros up to width 4
Format04d(n) == Zeros(4 - Len(DecDigits(n))) \o DecDigits(n)

RECURSIVE ParseInt(_)
\* int(s) for a string of decimal digits
ParseInt(s) ==
    IF s = <<>> THEN 0
    ELSE ParseInt(SubSeq(s, 1, Len(s) - 1)) * 10 + DigitVal(s[Len(s)])

\* the positions of character c in s
Positions(s, c) == {i \in 1..Len(s) : s[i] = c}
Max(S) == CHOOSE x \in S : \A y \in S : y <= x
Min(S) == CHOOSE x \in S : \A y \in S : x <= y

\* os.path.basename: what follows the last "/"
Basename(p) ==
    IF Positions(p, "/") = {} THEN p
    ELSE SubSeq(p, Max(Positions(p, "/")) + 1, Len(p))

\* os.path.join of two components
Join(a, b) ==
    IF b # <<>> /\ b[1] = "/" THEN b
    ELSE IF a = <<>> \/ a[Len(a)] = "/" THEN a \o b
    ELSE a \o <<"/">> \o b

RECURSIVE StripSlash(_)
StripSlash(p) ==
    IF p # <<>> /\ p[Len(p)] = "/" THEN StripSlash(SubSeq(p, 1, Len(p) - 1))
    ELSE p

\* the directories a file path lies in
ParentDirs(p) == {SubSeq(p, 1, i - 1) : i \in Positions(p, "/")}

\* a CHM file: whether the path exists, whether LoadCHM succeeds, the
\* documents it holds and its table of contents (None when it has no .hhc)
Archive(found, loads, docs, toc) ==
    [found |-> found, loads |-> loads, docs |-> docs, toc |-> toc]
NoArchive == Archive(FALSE, FALSE, {}, None)

----------------------------------------------------------------------------
(* the filesystem *)

IsFile(p) == p \in DOMAIN fs
IsDir(p) == StripSlash(p) \in dirs
\* os.path.exists: true of files and of directories
Exists(p) == IsFile(p) \/ IsDir(p)

\* fs with the content c written at path p
WriteFile(f, p, c) == [q \in (DOMAIN f) \cup {p} |-> IF q = p THEN c ELSE f[q]]

\* shutil.rmtree(d) on f: every file under d is gone
RmTree(f, d) ==
    [q \in {p \in DOMAIN f : d \notin ParentDirs(p)} |-> f[q]]

extraction_dir == <<"e", "x", "t", "r", "a", "c", "t", "e", "d", "C", "H", "M">>
reorganized_dir == <<"r", "e", "o", "r", "g", "a", "n", "i", "z", "e", "d">>

----------------------------------------------------------------------------
(* the inputs *)

intro_htm == <<"i", "n", "t", "r", "o", ".", "h", "t", "m">>
ch1_htm == <<"c", "h", "1", ".", "h", "t", "m">>
sub_intro_htm == <<"s", "u", "b", "/">> \o intro_htm

\* the documents an archive may hold
ArchiveDocs == {intro_htm, ch1_htm, sub_intro_htm}
\* the references a table of contents may hold; the empty reference is what
\* a value made of a fragment alone ("#top") leaves
TocRefs == ArchiveDocs \cup {<<>>}

MaxToc == 4

RECURSIVE SeqsUpTo(_, _)
\* the sequences over S of length at most n
SeqsUpTo(S, n) ==
    IF n = 0 THEN {<<>>}
    ELSE LET shorter == SeqsUpTo(S, n - 1)
         IN shorter \cup {Append(s, x) : s \in {t \in shorter : Len(t) = n - 1}, x \in S}

\* the filesystem after extracting the documents docs
ExtractedFs(docs) ==
    [p \in {Join(extraction_dir, d) : d \in docs} |-> p]
ExtractedDirs(docs) ==
    {extraction_dir} \cup UNION {ParentDirs(Join(extraction_dir, d)) : d \in docs}

----------------------------------------------------------------------------
(* HTMLOrganizer._copy_files_in_order *)

src_path(filename) == Join(extraction_dir, filename)
base_filename(filename) == Basename(filename)
\* a changed new_filename: the rank is left out of the name
new_filename_NoRank(i, base) == base
new_filename(i, base) == Format04d(i) \o <<"_">> \o base
dst_path(i, base) == Join(reorganized_dir, new_filename(i, base))

\* a changed ShouldCopy: the whole reference is compared, not its basename
ShouldCopy_WholeReference(filename, last) ==
    Exists(Join(extraction_dir, filename)) /\ Some(filename) # last

\* a changed ShouldCopy: the last copy is not compared with
ShouldCopy_NoDuplicateTest(filename, last) ==
    Exists(src_path(filename))

\* a changed ShouldCopy: the source is not tested for existence
ShouldCopy_NoExistenceTest(filename, last) ==
    Some(Basename(filename)) # last

\* the loop's condition for copying a reference
ShouldCopy(filename, last) ==
    Exists(src_path(filename)) /\ Some(base_filename(filename)) # last

\* the entry the loop's "Copied:" line stands for; toc is the reference's
\* position in the list
Document(filename, i, toc) ==
    [source_path |-> src_path(filename), rank |-> i,
     output_filename |-> new_filename(i, base_filename(filename)), toc |-> toc]

\* a changed CopyFilesStep: a reference that is not copied takes a rank too
CopyFilesStep_RankOnSkip ==
    /\ pc = "copy_files"
    /\ pos < Len(html_files)
    /\ LET filename == html_files[pos + 1]
       IN IF ShouldCopy(filename, last_copied)
          THEN IF IsFile(src_path(filename))
               THEN /\ fs' = WriteFile(fs, dst_path(index, base_filename(filename)),
                                       fs[src_path(filename)])
                    /\ emitted' = Append(emitted, Document(filename, index, pos + 1))
                    /\ last_copied' = Some(base_filename(filename))
                    /\ index' = index + 1
                    /\ pos' = pos + 1
                    /\ UNCHANGED pc
               ELSE /\ pc' = "copy_raised"
                    /\ UNCHANGED <<fs, emitted, last_copied, index, pos>>
          ELSE /\ pos' = pos + 1
               /\ index' = index + 1
               /\ UNCHANGED <<fs, emitted, last_copied, pc>>
    /\ UNCHANGED <<dirs, html_files, legacyVars, parseVars, mergeVars, mainVars, normVars, textVars>>

\* a changed CopyFilesStep: last_copied follows every reference iterated
\* over, the ones that do not exist included
CopyFilesStep_TrackSkipped ==
    /\ pc = "copy_files"
    /\ pos < Len(html_files)
    /\ LET filename == html_files[pos + 1]
       IN IF ShouldCopy(filename, last_copied)
          THEN IF IsFile(src_path(filename))
               THEN /\ fs' = WriteFile(fs, dst_path(index, base_filename(filename)),
                                       fs[src_path(filename)])
                    /\ emitted' = Append(emitted, Document(filename, index, pos + 1))
                    /\ last_copied' = Some(base_filename(filename))
                    /\ index' = index + 1
                    /\ pos' = pos + 1
                    /\ UNCHANGED pc
               ELSE /\ pc' = "copy_raised"
                    /\ UNCHANGED <<fs, emitted, last_copied, index, pos>>
          ELSE /\ pos' = pos + 1
               /\ last_copied' = Some(base_filename(filename))
               /\ UNCHANGED <<fs, emitted, index, pc>>
    /\ UNCHANGED <<dirs, html_files, legacyVars, parseVars, mergeVars, mainVars, normVars, textVars>>

\* one iteration of the loop
CopyFilesStep ==
    /\ pc = "copy_files"
    /\ pos < Len(html_files)
    /\ LET filename == html_files[pos + 1]
       IN IF ShouldCopy(filename, last_copied)
          THEN IF IsFile(src_path(filename))
               THEN /\ fs' = WriteFile(fs, dst_path(index, base_filename(filename)),
                                       fs[src_path(filename)])
                    /\ emitted' = Append(emitted, Document(filename, index, pos + 1))
                    /\ last_copied' = Some(base_filename(filename))
                    /\ index' = index + 1
                    /\ pos' = pos + 1
                    /\ UNCHANGED pc
               ELSE \* shutil.copy2 of a directory raises; the loop is left
                    /\ pc' = "copy_raised"
                    /\ UNCHANGED <<fs, emitted, last_copied, index, pos>>
          ELSE /\ pos' = pos + 1
               /\ UNCHANGED <<fs, emitted, last_copied, index, pc>>
    /\ UNCHANGED <<dirs, html_files, legacyVars, parseVars, mergeVars, mainVars, normVars, textVars>>

----------------------------------------------------------------------------
(* orderHTM.py, the script create_order_htm_script generates *)

original_extraction_directory == extraction_dir
target_directory == reorganized_dir

current_filename(filename) == Join(original_extraction_directory, filename)
desired_filepath(i, base) ==
    Join(target_directory, Format04d(i) \o <<"_">> \o base)

\* a changed ScriptShouldCopy: a reference is copied whatever was copied
\* before it
ScriptShouldCopy_NoDuplicateTest(filename, last) ==
    Exists(current_filename(filename))

\* the script's condition for copying a reference
ScriptShouldCopy(filename, last) ==
    Exists(current_filename(filename)) /\ Some(Basename(filename)) # last

\* the entry the script's "Copied" line stands for
ScriptDocument(filename, i, toc) ==
    [source_path |-> current_filename(filename), rank |-> i,
     output_filename |-> Format04d(i) \o <<"_">> \o Basename(filename),
     toc |-> toc]

\* run_order_htm: the target directory is removed and the script is started
RunOrderHtm ==
    /\ fs' = RmTree(fs, reorganized_dir)
    /\ dirs' = dirs \cup {target_directory}
    /\ pc' = "order_htm"

\* one iteration of the script's loop
OrderHtmStep ==
    /\ pc = "order_htm"
    /\ l_pos < Len(desired_order)
    /\ LET filename == desired_order[l_pos + 1]
       IN IF ScriptShouldCopy(filename, last_copied_filename)
          THEN IF IsFile(current_filename(filename))
               THEN /\ fs' = WriteFile(fs, desired_filepath(l_index, Basename(filename)),
                                       fs[current_filename(filename)])
                    /\ printed' = Append(printed, ScriptDocument(filename, l_index, l_pos + 1))
                    /\ last_copied_filename' = Some(Basename(filename))
                    /\ l_index' = l_index + 1
                    /\ l_pos' = l_pos + 1
                    /\ UNCHANGED pc
               ELSE \* shutil.copyfile of a directory raises; the script dies
                    /\ pc' = "order_htm_raised"
                    /\ UNCHANGED <<fs, printed, last_copied_filename, l_index, l_pos>>
          ELSE \* not there, or "Skipped duplicate file"
               /\ l_pos' = l_pos + 1
               /\ UNCHANGED <<fs, printed, last_copied_filename, l_index, pc>>
    /\ UNCHANGED <<dirs, desired_order, cloudVars, parseVars, mergeVars, mainVars, normVars, textVars>>

----------------------------------------------------------------------------
(* the sequencer on its own: any reference list over any extracted set,   *)
(* given to the cloud loop and then to the generated script               *)

InitSeq ==
    /\ \E docs \in SUBSET ArchiveDocs :
          /\ fs = ExtractedFs(docs)
          /\ dirs = ExtractedDirs(docs) \cup {reorganized_dir}
    /\ html_files \in SeqsUpTo(TocRefs, MaxToc)
    /\ desired_order = html_files
    /\ pos = 0 /\ last_copied = None /\ index = 1 /\ emitted = <<>>
    /\ l_pos = 0 /\ last_copied_filename = None /\ l_index = 1 /\ printed = <<>>
    /\ hhc = <<>> /\ parse_pos = 0
    /\ pdf_files = <<>> /\ m_pos = 0 /\ merger = <<>>
    /\ chm = NoArchive /\ hhc_path = None /\ started = <<>> /\ returned = <<>>
    /\ conv_files = <<>> /\ conv_result = <<>>
    /\ proc_files = <<>> /\ proc_result = <<>> /\ htm_files_sorted = <<>> /\ r_pos = 0
    /\ flat_passes = <<>> /\ html_content = <<>> /\ soup = <<>> /\ os_name = "posix"
    /\ pc = "copy_files"

\* the cloud loop has ended, by exhausting the list or by raising
CopyFilesEnded ==
    \/ pc = "copy_files" /\ pos = Len(html_files)
    \/ pc = "copy_raised"

SeqRunOrderHtm ==
    /\ CopyFilesEnded
    /\ RunOrderHtm
    /\ UNCHANGED <<cloudVars, legacyVars, parseVars, mergeVars, mainVars, normVars, textVars>>

NextSeq ==
    \/ CopyFilesStep
    \/ SeqRunOrderHtm
    \/ OrderHtmStep

SpecSeq == InitSeq /\ [][NextSeq]_vars

----------------------------------------------------------------------------
(* the sequencer's properties; each is stated of a reference list, the     *)
(* number of references iterated over and the documents emitted so far,    *)
(* and holds of the cloud loop and of the generated script alike           *)

\* the reference resolves to an existing file
Resolves(ref) == IsFile(Join(extraction_dir, ref))
EmittedAt(log, i) == \E k \in 1..Len(log) : log[k].toc = i
RankAt(log, i) == (CHOOSE k \in 1..Len(log) : log[k].toc = i)
Names(log) == [k \in 1..Len(log) |-> log[k].output_filename]

\* the basename of the document emitted last before position i, or None
PrevEmittedBase(log, i) ==
    LET before == {k \in 1..Len(log) : log[k].toc < i}
    IN IF before = {} THEN None
       ELSE Some(Basename(log[Max(before)].source_path))

\* the list [a, a, b, a] and the names it is to yield, written out
ListAABA == <<intro_htm, intro_htm, ch1_htm, intro_htm>>
NamesAABA ==
    << <<"0", "0", "0", "1", "_", "i", "n", "t", "r", "o", ".", "h", "t", "m">>,
       <<"0", "0", "0", "2", "_", "c", "h", "1", ".", "h", "t", "m">>,
       <<"0", "0", "0", "3", "_", "i", "n", "t", "r", "o", ".", "h", "t", "m">> >>

CollapseRule(list, done, log) ==
    (\A i \in 1..Len(list) : Resolves(list[i])) =>
        /\ \A i \in 1..done :
              EmittedAt(log, i) <=> Some(Basename(list[i])) # PrevEmittedBase(log, i)
        /\ (list = ListAABA /\ done = Len(list)) => Names(log) = NamesAABA

\* C1: when every reference resolves to an existing file, a reference is
\* emitted exactly when its basename differs from the basename of the
\* document emitted last before it; [a, a, b, a] yields 0001_a, 0002_b,
\* 0003_a.
C1_ConsecutiveCollapse ==
    /\ CollapseRule(html_files, pos, emitted)
    /\ CollapseRule(desired_order, l_pos, printed)

\* both loops have gone through [a, a, b, a] with every file there
C1_Witness ==
    /\ pc = "order_htm"
    /\ desired_order = ListAABA /\ l_pos = 4 /\ pos = 4
    /\ \A i \in 1..4 : Resolves(desired_order[i])
    /\ Len(emitted) = 3 /\ Len(printed) = 3

Dense(log, next) ==
    /\ next = Len(log) + 1
    /\ \A k \in 1..Len(log) : log[k].rank = k

\* C2: at every step the rank counter is the number of documents emitted
\* so far plus one, and the ranks of the emitted documents are 1..N in
\* order, without gap or repeat.
C2_RankDensity ==
    /\ Dense(emitted, index)
    /\ Dense(printed, l_index)

\* both loops are through a list of which some references were skipped and
\* at least two were emitted
C2_Witness ==
    /\ pc = "order_htm" /\ l_pos = Len(desired_order)
    /\ Len(printed) >= 2 /\ Len(printed) < Len(desired_order)
    /\ Len(emitted) >= 2 /\ Len(emitted) < Len(html_files)

\* C3: an iteration over a reference whose source path does not exist
\* emits nothing, leaves the rank counter and the files alone, does not
\* raise, and moves on to the next reference.
C3_DanglingSkipped ==
    /\ [][(pc = "copy_files" /\ pos < Len(html_files)
             /\ ~Exists(src_path(html_files[pos + 1])))
           => (/\ pos' = pos + 1 /\ pc' = "copy_files"
               /\ emitted' = emitted /\ index' = index /\ fs' = fs)]_vars
    /\ [][(pc = "order_htm" /\ l_pos < Len(desired_order)
             /\ ~Exists(current_filename(desired_order[l_pos + 1])))
           => (/\ l_pos' = l_pos + 1 /\ pc' = "order_htm"
               /\ printed' = printed /\ l_index' = l_index /\ fs' = fs)]_vars

\* both loops went past a reference that does not exist and emitted a
\* later one
C3_Witness ==
    /\ pc = "order_htm" /\ l_pos = Len(desired_order)
    /\ \E i \in 1..Len(desired_order) :
          /\ ~Exists(current_filename(desired_order[i]))
          /\ \E k \in 1..Len(printed) : printed[k].toc > i
          /\ \E k \in 1..Len(emitted) : emitted[k].toc > i

\* the statement of C4 as claimed: two resolving references with the same
\* basename, with a reference of another basename between them, are both
\* emitted under two ranks
SeparatedPairsEmitted(list, done, log) ==
    \A i, k \in 1..done :
        (/\ i < k
         /\ Basename(list[i]) = Basename(list[k])
         /\ Resolves(list[i]) /\ Resolves(list[k])
         /\ \E j \in (i + 1)..(k - 1) : Basename(list[j]) # Basename(list[i]))
        => (/\ EmittedAt(log, i) /\ EmittedAt(log, k)
            /\ RankAt(log, i) # RankAt(log, k))

FreshAt(list, i) ==
    LET before == {j \in 1..(i - 1) : Resolves(list[j])}
    IN before = {} \/ Basename(list[Max(before)]) # Basename(list[i])

ConsecutiveAmongResolving(list, done, log) ==
    /\ \A k \in 1..done :
          EmittedAt(log, k) <=> (Resolves(list[k]) /\ FreshAt(list, k))
    /\ \A i, k \in 1..done :
          (/\ i < k
           /\ Basename(list[i]) = Basename(list[k])
           /\ Resolves(list[i]) /\ Resolves(list[k])
           /\ FreshAt(list, i) /\ FreshAt(list, k))
          => (/\ EmittedAt(log, i) /\ EmittedAt(log, k)
              /\ RankAt(log, i) # RankAt(log, k))

UniqueInOrder(log) ==
    \A j, k \in 1..Len(log) :
        /\ (j # k => log[j].output_filename # log[k].output_filename)
        /\ (log[j].rank < log[k].rank <=> log[j].toc < log[k].toc)

\* every emitted document lies in the target directory under its own name
Placed(log) ==
    \A k \in 1..Len(log) :
        /\ IsFile(Join(reorganized_dir, log[k].output_filename))
        /\ fs[Join(reorganized_dir, log[k].output_filename)] = fs[log[k].source_path]

\* C6: no two emitted documents have the same output_filename, the
\* document of the smaller rank comes from the earlier position of the
\* list, and each document is in the target directory under that name.
C6_UniqueNamesInTocOrder ==
    /\ UniqueInOrder(emitted)
    /\ UniqueInOrder(printed)
    /\ pc \in {"copy_files", "copy_raised"} => Placed(emitted)
    /\ pc \in {"order_htm", "order_htm_raised"} => Placed(printed)

\* three documents emitted, two of them with the same basename
C6_Witness ==
    /\ pc = "order_htm" /\ l_pos = Len(desired_order)
    /\ Len(printed) = 3 /\ Len(emitted) = 3
    /\ Basename(printed[1].source_path) = Basename(printed[3].source_path)

----------------------------------------------------------------------------
(* HTMLOrganizer._parse_hhc_file and the parsing lines of orderHTM.py.     *)
(* The .hhc file is taken as the markup parser delivers it: the sequence   *)
(* of its elements in document order, each with its tag (in lower case)    *)
(* and its name and value attributes (None when absent).                   *)

UpperCase == <<"A", "B", "C", "D", "E", "F", "G", "H", "I", "J", "K", "L", "M",
               "N", "O", "P", "Q", "R", "S", "T", "U", "V", "W", "X", "Y", "Z">>
LowerCase == <<"a", "b", "c", "d", "e", "f", "g", "h", "i", "j", "k", "l", "m",
               "n", "o", "p", "q", "r", "s", "t", "u", "v", "w", "x", "y", "z">>

\* str.lower
LowerOf == [c \in {UpperCase[u] : u \in 1..26} |->
               LowerCase[CHOOSE u \in 1..26 : UpperCase[u] = c]]
Lower(s) == [i \in 1..Len(s) |-> IF s[i] \in DOMAIN LowerOf THEN LowerOf[s[i]] ELSE s[i]]

RECURSIVE Split(_, _)
\* str.split(sep) for a one-character separator: the list of the parts
Split(s, sep) ==
    IF Positions(s, sep) = {} THEN <<s>>
    ELSE LET i == Min(Positions(s, sep))
         IN <<SubSeq(s, 1, i - 1)>> \o Split(SubSeq(s, i + 1, Len(s)), sep)

\* a changed RemoveFragment: only the last fragment is cut off,
\* value.rsplit('#', 1)[0]
RemoveFragment_LastOnly(value) ==
    IF Positions(value, "#") = {} THEN value
    ELSE SubSeq(value, 1, Max(Positions(value, "#")) - 1)

\* param['value'].split('#')[0]
RemoveFragment(value) == Split(value, "#")[1]

\* the filter of find_all: a param element whose name, in lower case, is
\* "local"
IsLocalParam(el) ==
    /\ el.tag = "param"
    /\ el.name # None
    /\ el.name[1] # <<>>
    /\ Lower(el.name[1]) = <<"l", "o", "c", "a", "l">>

\* one iteration of the loop over the elements found
ParseHhcStep ==
    /\ pc = "parse_hhc"
    /\ parse_pos < Len(hhc)
    /\ LET param == hhc[parse_pos + 1]
       IN html_files' =
             IF IsLocalParam(param) /\ param.value # None
             THEN Append(html_files, RemoveFragment(param.value[1]))
             ELSE html_files
    /\ parse_pos' = parse_pos + 1
    /\ UNCHANGED <<fs, dirs, pos, last_copied, index, emitted, legacyVars, hhc, pc,
                   mergeVars, mainVars, normVars, textVars>>

RECURSIVE ScriptOrdered(_)
\* html_files_ordered of orderHTM.py: the value of every element found; it
\* is only evaluated when each of them has one
ScriptOrdered(els) ==
    IF els = <<>> THEN <<>>
    ELSE LET rest == ScriptOrdered(Tail(els))
         IN IF IsLocalParam(Head(els)) THEN <<Head(els).value[1]>> \o rest ELSE rest

\* param['value'] raises KeyError on an element found that has no value
ScriptKeyError(els) ==
    \E i \in 1..Len(els) : IsLocalParam(els[i]) /\ els[i].value = None

html_files_ordered_sanitized(els) ==
    [k \in 1..Len(ScriptOrdered(els)) |-> Split(ScriptOrdered(els)[k], "#")[1]]

\* the parsing lines of orderHTM.py, up to the making of the target
\* directory
OrderHtmParse ==
    /\ pc = "order_htm_parse"
    /\ IF ScriptKeyError(hhc)
       THEN pc' = "order_htm_raised" /\ UNCHANGED <<desired_order, dirs>>
       ELSE /\ desired_order' = html_files_ordered_sanitized(hhc)
            /\ dirs' = dirs \cup {target_directory}
            /\ pc' = "order_htm"
    /\ UNCHANGED <<fs, cloudVars, l_pos, last_copied_filename, l_index,
                   printed, parseVars, mergeVars, mainVars, normVars, textVars>>

----------------------------------------------------------------------------
(* the parser on its own: any table of contents, given to the cloud parser *)
(* and then to the script's parsing lines                                  *)

El(tag, name, value) == [tag |-> tag, name |-> name, value |-> value]
Local == <<"L", "o", "c", "a", "l">>

\* the elements a table of contents may hold
TocElements ==
    { El("param", Some(Local), Some(intro_htm)),
      El("param", Some(Local), Some(intro_htm \o <<"#", "s", "e", "c", "2">>)),
      El("param", Some(<<"L", "O", "C", "A", "L">>), Some(ch1_htm \o <<"#", "a", "#", "b">>)),
      El("param", Some(<<"l", "o", "c", "a", "l">>), Some(<<"#", "t", "o", "p">>)),
      El("param", Some(Local), None),
      El("param", Some(<<"N", "a", "m", "e">>), Some(<<"C", "#">>)),
      El("param", None, Some(ch1_htm)),
      El("object", Some(Local), Some(sub_intro_htm)) }

MaxParams == 3

InitParse ==
    /\ hhc \in SeqsUpTo(TocElements, MaxParams)
    /\ parse_pos = 0
    /\ fs = ExtractedFs({}) /\ dirs = ExtractedDirs({})
    /\ html_files = <<>> /\ desired_order = <<>>
    /\ pos = 0 /\ last_copied = None /\ index = 1 /\ emitted = <<>>
    /\ l_pos = 0 /\ last_copied_filename = None /\ l_index = 1 /\ printed = <<>>
    /\ pdf_files = <<>> /\ m_pos = 0 /\ merger = <<>>
    /\ chm = NoArchive /\ hhc_path = None /\ started = <<>> /\ returned = <<>>
    /\ conv_files = <<>> /\ conv_result = <<>>
    /\ proc_files = <<>> /\ proc_result = <<>> /\ htm_files_sorted = <<>> /\ r_pos = 0
    /\ flat_passes = <<>> /\ html_content = <<>> /\ soup = <<>> /\ os_name = "posix"
    /\ pc = "parse_hhc"

\* the cloud parser has returned; the script is given the same file
ParseRunScript ==
    /\ pc = "parse_hhc" /\ parse_pos = Len(hhc)
    /\ pc' = "order_htm_parse"
    /\ UNCHANGED <<fs, dirs, cloudVars, legacyVars, parseVars, mergeVars, mainVars, normVars, textVars>>

NextParse ==
    \/ ParseHhcStep
    \/ ParseRunScript
    \/ OrderHtmParse

SpecParse == InitParse /\ [][NextParse]_vars

\* the values of the elements found among the first n, in order
RECURSIVE FoundValues(_, _)
FoundValues(els, n) ==
    IF n = 0 THEN <<>>
    ELSE LET el == els[n]
         IN IF IsLocalParam(el) /\ el.value # None
            THEN Append(FoundValues(els, n - 1), el.value[1])
            ELSE FoundValues(els, n - 1)

\* the substring before the first "#", the whole string when it has none
BeforeFirstHash(v) ==
    IF \E i \in 1..Len(v) : v[i] = "#"
    THEN SubSeq(v, 1, (CHOOSE i \in 1..Len(v) :
                          v[i] = "#" /\ \A j \in 1..(i - 1) : v[j] # "#") - 1)
    ELSE v

FragmentsStripped(els, n, out) ==
    /\ Len(out) = Len(FoundValues(els, n))
    /\ \A k \in 1..Len(out) : out[k] = BeforeFirstHash(FoundValues(els, n)[k])
    /\ \A j, k \in 1..Len(out) :
          BeforeFirstHash(FoundValues(els, n)[j]) = BeforeFirstHash(FoundValues(els, n)[k])
          => out[j] = out[k]

\* C5: the reference the parser puts out for a matched value is the
\* substring of the value before its first "#", the whole value when it
\* has none; values that differ only in their fragment give one reference.
C5_FragmentStripping ==
    /\ pc \in {"parse_hhc", "order_htm_parse"} => FragmentsStripped(hhc, parse_pos, html_files)
    /\ pc = "order_htm" => FragmentsStripped(hhc, Len(hhc), desired_order)

\* both parsers are through a file with a value of two "#" and two values
\* that differ in their fragment only
C5_Witness ==
    /\ pc = "order_htm"
    /\ Len(desired_order) = 3 /\ Len(html_files) = 3
    /\ \E k \in 1..3 : Cardinality(Positions(FoundValues(hhc, 3)[k], "#")) = 2
    /\ \E j, k \in 1..3 :
          /\ FoundValues(hhc, 3)[j] # FoundValues(hhc, 3)[k]
          /\ desired_order[j] = desired_order[k]
          /\ html_files[j] = html_files[k]

----------------------------------------------------------------------------
(* CloudPDFConverter.combine_pdfs and combinePDFs.py *)

pdf_dir == <<"p", "d", "f", "s">>
pdfs_directory_path == pdf_dir
output_dir == <<".">>
chm_name == <<"b", "o", "o", "k">>
dot_pdf == <<".", "p", "d", "f">>

\* str.endswith
EndsWith(s, suffix) ==
    /\ Len(s) >= Len(suffix)
    /\ SubSeq(s, Len(s) - Len(suffix) + 1, Len(s)) = suffix

\* os.listdir(d): the names of the files lying in d itself
ListDir(d) ==
    {Basename(p) : p \in {q \in DOMAIN fs : q = Join(d, Basename(q))}}

RECURSIVE Listings(_)
\* the orders in which a directory listing may come
Listings(S) ==
    IF S = {} THEN {<<>>}
    ELSE UNION {{<<x>> \o q : q \in Listings(S \ {x})} : x \in S}

\* os.path.splitext(name)[0]
SplitextRoot(name) ==
    IF Positions(name, ".") = {} \/ Max(Positions(name, ".")) = 1 THEN name
    ELSE SubSeq(name, 1, Max(Positions(name, ".")) - 1)

RECURSIVE RunEnd(_, _)
\* the end of the run of digits that starts at position i of s
RunEnd(s, i) ==
    IF i < Len(s) /\ IsDigit(s[i + 1]) THEN RunEnd(s, i + 1) ELSE i

\* a changed SearchDigitsUnderscore: the last group of the name is taken
SearchDigitsUnderscore_LastGroup(s) ==
    LET starts == {i \in 1..Len(s) :
                      /\ IsDigit(s[i])
                      /\ (i = 1 \/ ~IsDigit(s[i - 1]))
                      /\ RunEnd(s, i) < Len(s)
                      /\ s[RunEnd(s, i) + 1] = "_"}
    IN IF starts = {} THEN None
       ELSE Some(SubSeq(s, Max(starts), RunEnd(s, Max(starts))))

RECURSIVE SearchFrom(_, _)
\* the leftmost match of (\d+)_ in s at or after position i: a run of
\* digits that "_" follows; no match starts inside a run that none follows
SearchFrom(s, i) ==
    IF i > Len(s) THEN None
    ELSE IF ~IsDigit(s[i]) THEN SearchFrom(s, i + 1)
    ELSE IF RunEnd(s, i) < Len(s) /\ s[RunEnd(s, i) + 1] = "_"
    THEN Some(SubSeq(s, i, RunEnd(s, i)))
    ELSE SearchFrom(s, RunEnd(s, i) + 1)

\* re.search(r'(\d+)_', s): group 1 of the leftmost match, or None
SearchDigitsUnderscore(s) == SearchFrom(s, 1)

\* re.search(r'^(\d+)', s): the digits the name starts with, or None
SearchLeadingDigits(s) ==
    IF s = <<>> \/ ~IsDigit(s[1]) THEN None
    ELSE Some(SubSeq(s, 1, RunEnd(s, 1)))

\* the sort key of combine_pdfs; it raises on a name without a match
KeyRaises(path) == SearchDigitsUnderscore(Basename(path)) = None
CloudKey(path) == ParseInt(SearchDigitsUnderscore(Basename(path))[1])

Sentinel == 999999

\* extract_number of combinePDFs.py
extract_number(filename) ==
    IF SearchDigitsUnderscore(Basename(filename)) # None
    THEN ParseInt(SearchDigitsUnderscore(Basename(filename))[1])
    ELSE IF SearchLeadingDigits(Basename(filename)) # None
    THEN ParseInt(SearchLeadingDigits(Basename(filename))[1])
    ELSE Sentinel

\* list.sort(key=...) and sorted(..., key=...): a stable sort.  An item
\* comes after the items of a smaller key and after the items of the same
\* key that stood before it.
\* keys[k] is the key of seq[k].
SortedBy(seq, keys) ==
    LET Place(k) == 1 + Cardinality({j \in 1..Len(seq) :
                            keys[j] < keys[k] \/ (keys[j] = keys[k] /\ j < k)})
    IN [q \in 1..Len(seq) |-> seq[CHOOSE k \in 1..Len(seq) : Place(k) = q]]

\* the .pdf files of a listing, as paths
PdfPaths(listing, d) ==
    LET IsPdf(file) == EndsWith(file, dot_pdf)
        found == SelectSeq(listing, IsPdf)
    IN [k \in 1..Len(found) |-> Join(d, found[k])]

\* combine_pdfs: the directory is listed; no PDF is a failure
CombineList ==
    /\ pc = "combine_pdfs"
    /\ \E listing \in Listings(ListDir(pdf_dir)) :
          /\ pdf_files' = PdfPaths(listing, pdf_dir)
          /\ pc' = IF PdfPaths(listing, pdf_dir) = <<>> THEN "combine_failed"
                   ELSE "combine_sort"
    /\ UNCHANGED <<fs, dirs, cloudVars, legacyVars, parseVars, m_pos, merger,
                   mainVars, normVars, textVars>>

\* a changed CombineSort: the list is left in the order of the listing
CombineSort_ListingOrder ==
    /\ pc = "combine_sort"
    /\ pc' = "combine_append"
    /\ UNCHANGED <<fs, dirs, cloudVars, legacyVars, parseVars, pdf_files, m_pos, merger,
                   mainVars, normVars, textVars>>

\* combine_pdfs: the sort by numeric prefix; a key that raises is caught by
\* the method's except, which returns False
CombineSort ==
    /\ pc = "combine_sort"
    /\ IF \E k \in 1..Len(pdf_files) : KeyRaises(pdf_files[k])
       THEN pc' = "combine_failed" /\ UNCHANGED pdf_files
       ELSE /\ pdf_files' = SortedBy(pdf_files, [k \in 1..Len(pdf_files) |-> CloudKey(pdf_files[k])])
            /\ pc' = "combine_append"
    /\ UNCHANGED <<fs, dirs, cloudVars, legacyVars, parseVars, m_pos, merger,
                   mainVars, normVars, textVars>>

\* combine_pdfs: one iteration of the append loop; a PDF the merger cannot
\* read is warned about and left out
CombineAppend ==
    /\ pc = "combine_append"
    /\ m_pos < Len(pdf_files)
    /\ \E readable \in BOOLEAN :
          merger' = IF readable THEN Append(merger, fs[pdf_files[m_pos + 1]])
                    ELSE merger
    /\ m_pos' = m_pos + 1
    /\ UNCHANGED <<fs, dirs, cloudVars, legacyVars, parseVars, pdf_files, pc,
                   mainVars, normVars, textVars>>

output_path == Join(output_dir, chm_name \o dot_pdf)

\* combine_pdfs: the merged document is written and True is returned
CombineWrite ==
    /\ pc = "combine_append"
    /\ m_pos = Len(pdf_files)
    /\ fs' = WriteFile(fs, output_path, merger)
    /\ pc' = "combine_ok"
    /\ UNCHANGED <<dirs, cloudVars, legacyVars, parseVars, mergeVars, mainVars, normVars, textVars>>

\* combinePDFs.py: the directory is listed
ScriptList ==
    /\ pc = "combine_script"
    /\ \E listing \in Listings(ListDir(pdfs_directory_path)) :
          pdf_files' = PdfPaths(listing, pdfs_directory_path)
    /\ pc' = "combine_script_sort"
    /\ UNCHANGED <<fs, dirs, cloudVars, legacyVars, parseVars, m_pos, merger,
                   mainVars, normVars, textVars>>

\* combinePDFs.py: pdf_files_sorted
ScriptSort ==
    /\ pc = "combine_script_sort"
    /\ pdf_files' = SortedBy(pdf_files,
                            [k \in 1..Len(pdf_files) |-> extract_number(pdf_files[k])])
    /\ pc' = "combine_script_append"
    /\ UNCHANGED <<fs, dirs, cloudVars, legacyVars, parseVars, m_pos, merger,
                   mainVars, normVars, textVars>>

\* combinePDFs.py: one iteration of the append loop; a PDF the merger
\* cannot read ends the script
ScriptAppend ==
    /\ pc = "combine_script_append"
    /\ m_pos < Len(pdf_files)
    /\ \E readable \in BOOLEAN :
          IF readable
          THEN /\ merger' = Append(merger, fs[pdf_files[m_pos + 1]])
               /\ m_pos' = m_pos + 1
               /\ UNCHANGED pc
          ELSE /\ pc' = "combine_script_raised"
               /\ UNCHANGED <<merger, m_pos>>
    /\ UNCHANGED <<fs, dirs, cloudVars, legacyVars, parseVars, pdf_files, mainVars, normVars, textVars>>

\* combinePDFs.py: the merged document is written
ScriptWrite ==
    /\ pc = "combine_script_append"
    /\ m_pos = Len(pdf_files)
    /\ fs' = WriteFile(fs, Join(<<".", "/">>, chm_name \o dot_pdf), merger)
    /\ pc' = "combine_script_ok"
    /\ UNCHANGED <<dirs, cloudVars, legacyVars, parseVars, mergeVars, mainVars, normVars, textVars>>

----------------------------------------------------------------------------
(* the merge on its own: any PDF directory, given to combine_pdfs or to    *)
(* combinePDFs.py                                                          *)

\* _convert_single_file: the PDF's name for a ranked document
PdfName(html_file) == SplitextRoot(Basename(html_file)) \o dot_pdf

\* the PDF of the document the sequencer ranked r
RankedPdf(r, base) == [name |-> PdfName(new_filename(r, base)), rank |-> r]
\* a file that carries no rank
Unranked(name) == [name |-> name, rank |-> 0]

x_htm == <<"x", ".", "h", "t", "m">>
y_htm == <<"y", ".", "h", "t", "m">>
z_htm == <<"z", ".", "h", "t", "m">>

\* the files a PDF directory may hold
PdfPool ==
    { RankedPdf(1, y_htm), RankedPdf(2, x_htm), RankedPdf(10, z_htm),
      RankedPdf(3, <<"1", "_">> \o y_htm),
      RankedPdf(9999, x_htm), RankedPdf(10000, y_htm),
      Unranked(<<"n", "o", "t", "e", "s">> \o dot_pdf),
      Unranked(<<"1", "2">> \o dot_pdf),
      Unranked(<<"n", "o", "t", "e", "s", ".", "t", "x", "t">>) }

MaxPdfs == 3

InitMerge ==
    /\ \E held \in SUBSET PdfPool :
          /\ Cardinality(held) <= MaxPdfs
          /\ fs = [p \in {Join(pdf_dir, f.name) : f \in held} |->
                     CHOOSE f \in held : Join(pdf_dir, f.name) = p]
    /\ dirs = {pdf_dir}
    /\ pc \in {"combine_pdfs", "combine_script"}
    /\ pdf_files = <<>> /\ m_pos = 0 /\ merger = <<>>
    /\ hhc = <<>> /\ parse_pos = 0
    /\ html_files = <<>> /\ desired_order = <<>>
    /\ pos = 0 /\ last_copied = None /\ index = 1 /\ emitted = <<>>
    /\ l_pos = 0 /\ last_copied_filename = None /\ l_index = 1 /\ printed = <<>>
    /\ chm = NoArchive /\ hhc_path = None /\ started = <<>> /\ returned = <<>>
    /\ conv_files = <<>> /\ conv_result = <<>>
    /\ proc_files = <<>> /\ proc_result = <<>> /\ htm_files_sorted = <<>> /\ r_pos = 0
    /\ flat_passes = <<>> /\ html_content = <<>> /\ soup = <<>> /\ os_name = "posix"

NextMerge ==
    \/ CombineList
    \/ CombineSort
    \/ CombineAppend
    \/ CombineWrite
    \/ ScriptList
    \/ ScriptSort
    \/ ScriptAppend
    \/ ScriptWrite

SpecMerge == InitMerge /\ [][NextMerge]_vars

\* the PDFs of the directory
DirPdfs == {p \in DOMAIN fs : p = Join(pdf_dir, Basename(p)) /\ EndsWith(p, dot_pdf)}
AllRanked == \A p \in DirPdfs : fs[p].rank > 0
Sorted == pc \in {"combine_append", "combine_ok", "combine_script_append",
                  "combine_script_raised", "combine_script_ok"}
ByScript == pc \in {"combine_script", "combine_script_sort", "combine_script_append",
                    "combine_script_raised", "combine_script_ok"}

\* the names 0002_x.pdf, 0001_y.pdf, 0010_z.pdf and their merge order
ExampleDir ==
    { <<"p", "d", "f", "s", "/", "0", "0", "0", "2", "_", "x", ".", "p", "d", "f">>,
      <<"p", "d", "f", "s", "/", "0", "0", "0", "1", "_", "y", ".", "p", "d", "f">>,
      <<"p", "d", "f", "s", "/", "0", "0", "1", "0", "_", "z", ".", "p", "d", "f">> }
ExampleOrder ==
    << <<"p", "d", "f", "s", "/", "0", "0", "0", "1", "_", "y", ".", "p", "d", "f">>,
       <<"p", "d", "f", "s", "/", "0", "0", "0", "2", "_", "x", ".", "p", "d", "f">>,
       <<"p", "d", "f", "s", "/", "0", "0", "1", "0", "_", "z", ".", "p", "d", "f">> >>

\* C7: of a directory of PDFs named by the sequencer's convention, in any
\* listing order, the key read from each name is the rank the sequencer
\* gave (also when the basename holds a digits-underscore group of its own
\* and when the rank is above 9999), the sorted list holds every PDF in
\* ascending rank, and the PDFs are appended in ascending rank; 0002_x,
\* 0001_y, 0010_z are merged as 0001_y, 0002_x, 0010_z.
C7_MergeOrder ==
    AllRanked =>
        /\ \A p \in DirPdfs :
              /\ ~KeyRaises(p) /\ CloudKey(p) = fs[p].rank
              /\ extract_number(p) = fs[p].rank
        /\ pc # "combine_sort" => {pdf_files[k] : k \in 1..Len(pdf_files)} \subseteq DirPdfs
        /\ Sorted =>
              /\ {pdf_files[k] : k \in 1..Len(pdf_files)} = DirPdfs
              /\ \A j, k \in 1..Len(pdf_files) :
                    j < k => fs[pdf_files[j]].rank < fs[pdf_files[k]].rank
              /\ DirPdfs = ExampleDir => pdf_files = ExampleOrder
        /\ \A j, k \in 1..Len(merger) : j < k => merger[j].rank < merger[k].rank
        /\ pc \in {"combine_ok", "combine_script_ok"} => fs[output_path] = merger

\* combine_pdfs has merged 0003_1_y.pdf and 10000_y.pdf, listed out of order
C7_Witness ==
    /\ pc = "combine_ok"
    /\ Len(merger) = 3
    /\ merger[1].rank = 3 /\ merger[2].rank = 9999 /\ merger[3].rank = 10000

\* the .pdf names without a digits-underscore group
Strays == {p \in DirPdfs : SearchDigitsUnderscore(Basename(p)) = None}

\* C8, as claimed: with a .pdf file whose name has no digits-underscore
\* group in the directory, the merge does not fail, and the file is sorted
\* after every ranked PDF.
C8_AsClaimed ==
    Strays # {} =>
        /\ pc # "combine_failed"
        /\ Sorted =>
              \A j, k \in 1..Len(pdf_files) :
                  (pdf_files[j] \in Strays /\ pdf_files[k] \notin Strays) => k < j

----------------------------------------------------------------------------
(* main of automation_cloud.py: the six stages, one after the other *)

\* shutil.rmtree(d) on the set of directories
RmDirs(ds, d) == {x \in ds : x # d /\ d \notin ParentDirs(x)}

book_hhc == <<"b", "o", "o", "k", ".", "h", "h", "c">>
dot_hhc == <<".", "h", "h", "c">>
dot_hhk == <<".", "h", "h", "k">>
dot_htm == <<".", "h", "t", "m">>
dot_html == <<".", "h", "t", "m", "l">>

\* the image every archive holds
logo_png == <<"i", "m", "g", "/", "l", "o", "g", "o", ".", "p", "n", "g">>

\* _extract_all_files: every object of the archive is written under the
\* extraction directory; the table of contents is one of them
ArchiveFs(a) ==
    IF a.toc = None THEN ExtractedFs(a.docs \cup {logo_png})
    ELSE WriteFile(ExtractedFs(a.docs \cup {logo_png}),
                   Join(extraction_dir, book_hhc), a.toc[1])

\* `if not stage(): sys.exit(1)`
AfterStage_Continue(ok, next) == next
AfterStage(ok, next) == IF ok THEN next ELSE "exit_1"

\* main: the CHM path is validated
MainValidate ==
    /\ pc = "main"
    /\ pc' = IF chm.found THEN "extract" ELSE "exit_1"
    /\ UNCHANGED <<fs, dirs, cloudVars, legacyVars, parseVars, mergeVars, mainVars, normVars, textVars>>

\* extract: the extraction directory is made anew and the archive is
\* loaded and written out
Extract ==
    /\ pc = "extract"
    /\ started' = Append(started, "extract")
    /\ fs' = IF chm.loads THEN ArchiveFs(chm) @@ RmTree(fs, extraction_dir)
             ELSE RmTree(fs, extraction_dir)
    /\ dirs' = RmDirs(dirs, extraction_dir) \cup
               (IF chm.loads THEN ExtractedDirs(chm.docs \cup {logo_png})
                ELSE {extraction_dir})
    /\ returned' = Append(returned, chm.loads)
    /\ pc' = AfterStage(chm.loads, "find_hhc")
    /\ UNCHANGED <<cloudVars, legacyVars, parseVars, mergeVars, chm, hhc_path,
                   conv_files, conv_result, normVars, textVars>>

\* the .hhc files os.walk meets under the extraction directory
HhcFiles ==
    {p \in DOMAIN fs : /\ extraction_dir \in ParentDirs(p)
                       /\ EndsWith(Lower(Basename(p)), dot_hhc)}

\* find_hhc_file: the first .hhc file met, or None
FindHhc ==
    /\ pc = "find_hhc"
    /\ started' = Append(started, "find_hhc_file")
    /\ IF HhcFiles = {}
       THEN hhc_path' = None
       ELSE \E p \in HhcFiles : hhc_path' = Some(p)
    /\ returned' = Append(returned, HhcFiles # {})
    /\ pc' = AfterStage(HhcFiles # {}, "organize")
    /\ UNCHANGED <<fs, dirs, cloudVars, legacyVars, parseVars, mergeVars, chm,
                   conv_files, conv_result, normVars, textVars>>

\* a changed Organize: the target directory is kept as it is found
Organize_KeepTarget ==
    /\ pc = "organize"
    /\ started' = Append(started, "organize")
    /\ dirs' = dirs \cup {reorganized_dir}
    /\ hhc' = fs[hhc_path[1]]
    /\ parse_pos' = 0
    /\ html_files' = <<>>
    /\ pc' = "parse_hhc"
    /\ UNCHANGED <<fs, pos, last_copied, index, emitted, legacyVars, mergeVars, chm,
                   hhc_path, returned, conv_files, conv_result, normVars, textVars>>

\* organize: the target directory is made anew and the table of contents
\* is read
Organize ==
    /\ pc = "organize"
    /\ started' = Append(started, "organize")
    /\ fs' = RmTree(fs, reorganized_dir)
    /\ dirs' = RmDirs(dirs, reorganized_dir) \cup {reorganized_dir}
    /\ hhc' = fs[hhc_path[1]]
    /\ parse_pos' = 0
    /\ html_files' = <<>>
    /\ pc' = "parse_hhc"
    /\ UNCHANGED <<pos, last_copied, index, emitted, legacyVars, mergeVars, chm,
                   hhc_path, returned, conv_files, conv_result, normVars, textVars>>

\* organize: _parse_hhc_file has returned and _copy_files_in_order starts
OrganizeCopyFiles ==
    /\ pc = "parse_hhc" /\ parse_pos = Len(hhc)
    /\ last_copied' = None
    /\ index' = 1
    /\ pos' = 0
    /\ pc' = "copy_files"
    /\ UNCHANGED <<fs, dirs, html_files, emitted, legacyVars, parseVars, mergeVars,
                   mainVars, normVars, textVars>>

\* organize: the exception the copy loop raised is caught and False is
\* returned
OrganizeRaised ==
    /\ pc = "copy_raised"
    /\ returned' = Append(returned, FALSE)
    /\ pc' = AfterStage(FALSE, "process_all")
    /\ UNCHANGED <<fs, dirs, cloudVars, legacyVars, parseVars, mergeVars, chm,
                   hhc_path, started, conv_files, conv_result, normVars, textVars>>

\* a changed IsHtmlOrToc: the name is compared as it is written
IsHtmlOrToc_CaseSensitive(file) ==
    \E suffix \in {dot_htm, dot_html, dot_hhc, dot_hhk} : EndsWith(file, suffix)

\* the names _copy_assets and _copy_assets_to_flat_structure leave out
IsHtmlOrToc(file) ==
    \E suffix \in {dot_htm, dot_html, dot_hhc, dot_hhk} : EndsWith(Lower(file), suffix)

\* _copy_assets: asset_pairs, each source with its destination at the same
\* relative path under the target directory
asset_pairs ==
    {<<p, reorganized_dir \o SubSeq(p, Len(extraction_dir) + 1, Len(p))>> :
        p \in {q \in DOMAIN fs : /\ extraction_dir \in ParentDirs(q)
                                 /\ ~IsHtmlOrToc(Basename(q))}}

\* the filesystem with every asset copied to its destination
AssetsCopied ==
    [q \in DOMAIN fs \cup {pair[2] : pair \in asset_pairs} |->
        IF \E pair \in asset_pairs : pair[2] = q
        THEN fs[(CHOOSE pair \in asset_pairs : pair[2] = q)[1]]
        ELSE fs[q]]

\* organize: the copy loop has ended; the assets are copied and True is
\* returned
OrganizeCopyAssets ==
    /\ pc = "copy_files" /\ pos = Len(html_files)
    /\ fs' = AssetsCopied
    /\ dirs' = dirs \cup UNION {ParentDirs(pair[2]) : pair \in asset_pairs}
    /\ returned' = Append(returned, TRUE)
    /\ pc' = AfterStage(TRUE, "process_all")
    /\ UNCHANGED <<cloudVars, legacyVars, parseVars, mergeVars, chm, hhc_path,
                   started, conv_files, conv_result, normVars, textVars>>

\* the .htm and .html files of a listing, as paths
HtmlPaths(listing, d) ==
    LET IsHtml(file) == EndsWith(Lower(file), dot_htm) \/ EndsWith(Lower(file), dot_html)
        found == SelectSeq(listing, IsHtml)
    IN [k \in 1..Len(found) |-> Join(d, found[k])]

\* _get_html_files: the listing sorted by numeric prefix
get_html_files(listing, d) ==
    SortedBy(HtmlPaths(listing, d),
             [k \in 1..Len(HtmlPaths(listing, d)) |-> CloudKey(HtmlPaths(listing, d)[k])])

\* the sort key of _get_html_files raises on a name without a match
GetHtmlFilesRaises(d) ==
    \E file \in ListDir(d) :
        /\ EndsWith(Lower(file), dot_htm) \/ EndsWith(Lower(file), dot_html)
        /\ KeyRaises(file)

\* _copy_assets_to_flat_structure: the assets lying in subdirectories of
\* the HTML directory
FlatSources ==
    {p \in DOMAIN fs : /\ reorganized_dir \in ParentDirs(p)
                       /\ p # Join(reorganized_dir, Basename(p))
                       /\ ~IsHtmlOrToc(Basename(p))}
\* the content of a file shutil.copy2 cannot read
Unreadable == <<>>
\* a changed FlatNames: the destination is not tested
FlatNames_NoExistenceTest == {Basename(p) : p \in FlatSources}
\* the names that are not taken at the top of the HTML directory: a copy is
\* attempted for them only
FlatNames ==
    {n \in {Basename(p) : p \in FlatSources} : ~Exists(Join(reorganized_dir, n))}
\* the names a copy succeeds for
FlatCopied == {n \in FlatNames : \E p \in FlatSources : Basename(p) = n /\ fs[p] # Unreadable}
\* a changed Flattenings: the walk is left out
Flattenings_Skipped == {fs}
\* the filesystems the walk may leave: of the assets of one name, the first
\* one met that can be copied is copied; a copy that raises is warned about
Flattenings ==
    {[q \in DOMAIN fs \cup {Join(reorganized_dir, n) : n \in FlatCopied} |->
         IF Basename(q) \in FlatCopied /\ q = Join(reorganized_dir, Basename(q))
         THEN fs[pick[Basename(q)]] ELSE fs[q]] :
       pick \in {f \in [FlatCopied -> FlatSources] :
                    \A n \in FlatCopied : Basename(f[n]) = n /\ fs[f[n]] # Unreadable}}

\* the result of a worker of process_all for one document
Unprocessed == [done |-> FALSE, ok |-> FALSE]
Processed(ok) == [done |-> TRUE, ok |-> ok]

\* process_all: the HTML files are listed, the assets are flattened and one
\* task per document is handed to the pool; an exception (the listing, or
\* the pool cannot start its workers) is caught and False is returned
ProcessAll ==
    /\ pc = "process_all"
    /\ started' = Append(started, "process_all")
    /\ IF GetHtmlFilesRaises(reorganized_dir)
       THEN /\ returned' = Append(returned, FALSE)
            /\ pc' = AfterStage(FALSE, "convert_all")
            /\ UNCHANGED <<fs, proc_files, proc_result>>
       ELSE \E listing \in Listings(ListDir(reorganized_dir)), pool_raises \in BOOLEAN :
               /\ fs' \in Flattenings
               /\ IF pool_raises
                  THEN /\ returned' = Append(returned, FALSE)
                       /\ pc' = AfterStage(FALSE, "convert_all")
                       /\ UNCHANGED <<proc_files, proc_result>>
                  ELSE /\ proc_files' = get_html_files(listing, reorganized_dir)
                       /\ proc_result' = [k \in 1..Len(proc_files') |-> Unprocessed]
                       /\ pc' = "processing"
                       /\ UNCHANGED returned
    /\ UNCHANGED <<dirs, cloudVars, legacyVars, parseVars, mergeVars, chm, hhc_path,
                   conv_files, conv_result, htm_files_sorted, r_pos, textVars>>

\* _process_single_file, run by a worker of the pool for any document not
\* yet processed: the document is rewritten where it is and True returned;
\* any exception is caught, printed, and False returned.  What the
\* rewriting does to the markup is process_single_file.
ProcessSingleFile ==
    /\ pc = "processing"
    /\ \E k \in 1..Len(proc_files), ok \in BOOLEAN :
          /\ ~proc_result[k].done
          /\ proc_result' = [proc_result EXCEPT ![k] = Processed(ok)]
    /\ UNCHANGED <<fs, dirs, cloudVars, legacyVars, parseVars, mergeVars, mainVars,
                   proc_files, htm_files_sorted, r_pos, pc,
                   textVars>>

\* process_all, once every worker has returned: the failures are counted
\* and warned about, and True is returned
ProcessAllReturn ==
    /\ pc = "processing"
    /\ \A k \in 1..Len(proc_files) : proc_result[k].done
    /\ returned' = Append(returned, TRUE)
    /\ pc' = AfterStage(TRUE, "convert_all")
    /\ proc_files' = <<>>
    /\ proc_result' = <<>>
    /\ UNCHANGED <<fs, dirs, cloudVars, legacyVars, parseVars, mergeVars, chm, hhc_path,
                   started, conv_files, conv_result, htm_files_sorted, r_pos, textVars>>

\* what executor.map holds for a document: whether its worker has returned,
\* the path it returned, and how many workers had returned when it did
Pending == [done |-> FALSE, pdf |-> None, at |-> 0]
Result(pdf, at) == [done |-> TRUE, pdf |-> pdf, at |-> at]

\* convert_all: the PDF directory is made anew and the HTML files are
\* listed and sorted
ConvertAll ==
    /\ pc = "convert_all"
    /\ started' = Append(started, "convert_all")
    /\ fs' = RmTree(fs, pdf_dir)
    /\ dirs' = RmDirs(dirs, pdf_dir) \cup {pdf_dir}
    /\ IF GetHtmlFilesRaises(reorganized_dir)
       THEN /\ returned' = Append(returned, FALSE)
            /\ pc' = AfterStage(FALSE, "combine")
            /\ UNCHANGED <<conv_files, conv_result>>
       ELSE /\ \E listing \in Listings(ListDir(reorganized_dir)) :
                  conv_files' = get_html_files(listing, reorganized_dir)
            /\ conv_result' = [k \in 1..Len(conv_files') |-> Pending]
            /\ pc' = "converting"
            /\ UNCHANGED returned
    /\ UNCHANGED <<cloudVars, legacyVars, parseVars, mergeVars, chm, hhc_path,
                   normVars, textVars>>

\* _convert_single_file in a worker of the pool: the PDF is written and its
\* path returned, or the rendering raises and None is returned
ConvertSingleFile ==
    /\ pc = "converting"
    /\ \E k \in 1..Len(conv_files) :
          /\ ~conv_result[k].done
          /\ LET pdf_path == Join(pdf_dir, PdfName(conv_files[k]))
                 at == Cardinality({j \in 1..Len(conv_files) : conv_result[j].done})
             IN \E rendered \in BOOLEAN :
                   IF rendered
                   THEN /\ fs' = WriteFile(fs, pdf_path, fs[conv_files[k]])
                        /\ conv_result' = [conv_result EXCEPT ![k] = Result(Some(pdf_path), at)]
                   ELSE /\ conv_result' = [conv_result EXCEPT ![k] = Result(None, at)]
                        /\ UNCHANGED fs
    /\ UNCHANGED <<dirs, cloudVars, legacyVars, parseVars, mergeVars, chm, hhc_path,
                   started, returned, conv_files, normVars, textVars, pc>>

\* the paths the workers returned
successful_pdfs == {k \in 1..Len(conv_result) : conv_result[k].pdf # None}

\* a changed ConvertAllReturn: True is returned whatever the workers
\* returned
ConvertAllReturn_AlwaysTrue ==
    /\ pc = "converting"
    /\ \A k \in 1..Len(conv_result) : conv_result[k].done
    /\ returned' = Append(returned, TRUE)
    /\ pc' = AfterStage(TRUE, "combine")
    /\ conv_result' = [k \in 1..Len(conv_result) |-> Result(conv_result[k].pdf, 0)]
    /\ UNCHANGED <<fs, dirs, cloudVars, legacyVars, parseVars, mergeVars, chm,
                   hhc_path, started, conv_files, normVars, textVars>>

\* convert_all: every worker has returned and the list of what they
\* returned is all that is left of them; no PDF is a failure
ConvertAllReturn ==
    /\ pc = "converting"
    /\ \A k \in 1..Len(conv_result) : conv_result[k].done
    /\ returned' = Append(returned, successful_pdfs # {})
    /\ pc' = AfterStage(successful_pdfs # {}, "combine")
    /\ conv_result' = [k \in 1..Len(conv_result) |-> Result(conv_result[k].pdf, 0)]
    /\ UNCHANGED <<fs, dirs, cloudVars, legacyVars, parseVars, mergeVars, chm,
                   hhc_path, started, conv_files, normVars, textVars>>

\* main calls combine_pdfs
MainCombine ==
    /\ pc = "combine"
    /\ started' = Append(started, "combine_pdfs")
    /\ pc' = "combine_pdfs"
    /\ UNCHANGED <<fs, dirs, cloudVars, legacyVars, parseVars, mergeVars, chm,
                   hhc_path, returned, conv_files, conv_result, normVars, textVars>>

\* combine_pdfs has returned; after the last stage the success message is
\* logged
MainCombineReturn ==
    /\ pc \in {"combine_ok", "combine_failed"}
    /\ returned' = Append(returned, pc = "combine_ok")
    /\ pc' = AfterStage(pc = "combine_ok", "done")
    /\ UNCHANGED <<fs, dirs, cloudVars, legacyVars, parseVars, mergeVars, chm,
                   hhc_path, started, conv_files, conv_result, normVars, textVars>>

----------------------------------------------------------------------------
(* main of automation.py: the eight stages, one after the other *)

\* main: the CHM path is validated
LegacyValidate ==
    /\ pc = "legacy_main"
    /\ pc' = IF chm.found THEN "extract_chm" ELSE "exit_1"
    /\ UNCHANGED <<fs, dirs, cloudVars, legacyVars, parseVars, mergeVars, mainVars, normVars, textVars>>

\* extract_chm: the extraction directory is removed and archmage is run;
\* an archive it cannot read makes it exit non-zero
ExtractChm ==
    /\ pc = "extract_chm"
    /\ started' = Append(started, "extract_chm")
    /\ fs' = IF chm.loads THEN ArchiveFs(chm) @@ RmTree(fs, extraction_dir)
             ELSE RmTree(fs, extraction_dir)
    /\ dirs' = RmDirs(dirs, extraction_dir) \cup
               (IF chm.loads THEN ExtractedDirs(chm.docs \cup {logo_png}) ELSE {})
    /\ returned' = Append(returned, chm.loads)
    /\ pc' = AfterStage(chm.loads, "l_find_hhc")
    /\ UNCHANGED <<cloudVars, legacyVars, parseVars, mergeVars, chm, hhc_path,
                   conv_files, conv_result, normVars, textVars>>

\* find_hhc_file of automation.py
LegacyFindHhc ==
    /\ pc = "l_find_hhc"
    /\ started' = Append(started, "find_hhc_file")
    /\ IF HhcFiles = {}
       THEN hhc_path' = None
       ELSE \E p \in HhcFiles : hhc_path' = Some(p)
    /\ returned' = Append(returned, HhcFiles # {})
    /\ pc' = AfterStage(HhcFiles # {}, "create_order_htm_script")
    /\ UNCHANGED <<fs, dirs, cloudVars, legacyVars, parseVars, mergeVars, chm,
                   conv_files, conv_result, normVars, textVars>>

orderHTM_py == <<"o", "r", "d", "e", "r", "H", "T", "M", ".", "p", "y">>

\* create_order_htm_script: the table of contents is read and written into
\* the script as its sitemap_content
CreateOrderHtmScript ==
    /\ pc = "create_order_htm_script"
    /\ started' = Append(started, "create_order_htm_script")
    /\ hhc' = fs[hhc_path[1]]
    /\ fs' = WriteFile(fs, orderHTM_py, fs[hhc_path[1]])
    /\ returned' = Append(returned, TRUE)
    /\ pc' = AfterStage(TRUE, "run_order_htm")
    /\ UNCHANGED <<dirs, cloudVars, legacyVars, parse_pos, mergeVars, chm, hhc_path,
                   conv_files, conv_result, normVars, textVars>>

\* run_order_htm: the target directory is removed and the script is started
LegacyRunOrderHtm ==
    /\ pc = "run_order_htm"
    /\ started' = Append(started, "run_order_htm")
    /\ fs' = RmTree(fs, reorganized_dir)
    /\ dirs' = RmDirs(dirs, reorganized_dir)
    /\ pc' = "order_htm_parse"
    /\ UNCHANGED <<cloudVars, legacyVars, parseVars, mergeVars, chm, hhc_path,
                   returned, conv_files, conv_result, normVars, textVars>>

\* run_order_htm: the script has ended; an exit status other than zero is
\* a CalledProcessError, and False is returned
LegacyOrderHtmReturn ==
    /\ \/ pc = "order_htm" /\ l_pos = Len(desired_order)
       \/ pc = "order_htm_raised"
    /\ returned' = Append(returned, pc = "order_htm")
    /\ pc' = AfterStage(pc = "order_htm", "copy_non_htm_files")
    /\ UNCHANGED <<fs, dirs, cloudVars, legacyVars, parseVars, mergeVars, chm,
                   hhc_path, started, conv_files, conv_result, normVars, textVars>>

\* the directories lying in the extraction directory itself
TopDirs == {d \in dirs : /\ ParentDirs(d) = {extraction_dir}}

\* copy_non_htm_files: the assets are copied, those at the top and those in
\* subdirectories, and the top directories are made in the target
CopyNonHtmFiles ==
    /\ pc = "copy_non_htm_files"
    /\ started' = Append(started, "copy_non_htm_files")
    /\ fs' = AssetsCopied
    /\ dirs' = dirs \cup UNION {ParentDirs(pair[2]) : pair \in asset_pairs}
                    \cup {Join(reorganized_dir, Basename(d)) : d \in TopDirs}
    /\ returned' = Append(returned, TRUE)
    /\ pc' = AfterStage(TRUE, "run_remove_text")
    /\ UNCHANGED <<cloudVars, legacyVars, parseVars, mergeVars, chm, hhc_path,
                   conv_files, conv_result, normVars, textVars>>

\* the documents removeText.py lists: the names that end in .htm or .html
ScriptHtmlFiles ==
    {Join(reorganized_dir, file) :
        file \in {f \in ListDir(reorganized_dir) : EndsWith(f, dot_htm) \/ EndsWith(f, dot_html)}}

\* run_remove_text starts removeText.py, which flattens the assets, lists
\* the documents and sorts them by their numeric prefix; a sort key that
\* raises ends the script
RunRemoveText ==
    /\ pc = "run_remove_text"
    /\ started' = Append(started, "run_remove_text")
    /\ fs' \in Flattenings
    /\ IF \E f \in ScriptHtmlFiles : KeyRaises(f)
       THEN /\ pc' = "remove_text_raised"
            /\ UNCHANGED <<htm_files_sorted, r_pos>>
       ELSE \E listing \in Listings(ScriptHtmlFiles) :
               /\ htm_files_sorted' = SortedBy(listing, [k \in 1..Len(listing) |-> CloudKey(listing[k])])
               /\ r_pos' = 0
               /\ pc' = "remove_text"
    /\ UNCHANGED <<dirs, cloudVars, legacyVars, parseVars, mergeVars, chm, hhc_path,
                   returned, conv_files, conv_result, proc_files, proc_result, textVars>>

\* one turn of the loop of removeText.py: remove_show_framing reads the
\* next document, rewrites it and writes it back where it was; nothing
\* catches what it raises, so a document that cannot be read or written
\* ends the script.  What the rewriting does to the markup is
\* remove_show_framing.
RemoveTextStep ==
    /\ pc = "remove_text"
    /\ r_pos < Len(htm_files_sorted)
    /\ \E ok \in BOOLEAN :
          IF ok THEN r_pos' = r_pos + 1 /\ pc' = pc
          ELSE pc' = "remove_text_raised" /\ r_pos' = r_pos
    /\ UNCHANGED <<fs, dirs, cloudVars, legacyVars, parseVars, mergeVars, mainVars,
                   proc_files, proc_result, htm_files_sorted,
                   textVars>>

\* run_remove_text, once the script has ended: True after the last
\* document, False (CalledProcessError) when the script has raised
RunRemoveTextReturn ==
    /\ \/ pc = "remove_text" /\ r_pos = Len(htm_files_sorted)
       \/ pc = "remove_text_raised"
    /\ LET ok == pc = "remove_text"
       IN /\ returned' = Append(returned, ok)
          /\ pc' = AfterStage(ok, "run_convert_to_pdf")
    /\ UNCHANGED <<fs, dirs, cloudVars, legacyVars, parseVars, mergeVars, chm, hhc_path,
                   started, conv_files, conv_result, normVars, textVars>>

\* run_convert_to_pdf: the PDF directory is removed and the conversion
\* script is run over the target directory; it renders some of the
\* documents, each to a PDF of its name, and its exit status is the
\* stage's result
RunConvertToPdf ==
    /\ pc = "run_convert_to_pdf"
    /\ started' = Append(started, "run_convert_to_pdf")
    /\ \E rendered \in SUBSET ScriptHtmlFiles :
          fs' = [q \in DOMAIN RmTree(fs, pdf_dir) \cup
                       {Join(pdf_dir, PdfName(f)) : f \in rendered} |->
                   IF \E f \in rendered : Join(pdf_dir, PdfName(f)) = q
                   THEN fs[CHOOSE f \in rendered : Join(pdf_dir, PdfName(f)) = q]
                   ELSE fs[q]]
    /\ dirs' = RmDirs(dirs, pdf_dir) \cup {pdf_dir}
    /\ \E status_zero \in BOOLEAN :
          /\ returned' = Append(returned, status_zero)
          /\ pc' = AfterStage(status_zero, "run_combine_pdfs")
    /\ UNCHANGED <<cloudVars, legacyVars, parseVars, mergeVars, chm, hhc_path,
                   conv_files, conv_result, normVars, textVars>>

\* run_combine_pdfs: combinePDFs.py is started
RunCombinePdfs ==
    /\ pc = "run_combine_pdfs"
    /\ started' = Append(started, "run_combine_pdfs")
    /\ pc' = "combine_script"
    /\ UNCHANGED <<fs, dirs, cloudVars, legacyVars, parseVars, mergeVars, chm,
                   hhc_path, returned, conv_files, conv_result, normVars, textVars>>

combined_pdf == Join(<<".", "/">>, chm_name \o dot_pdf)
elsewhere == <<"o", "u", "t">>

\* run_combine_pdfs: the script has ended.  A status other than zero is
\* caught and False is returned.  Otherwise the merged document is copied
\* into the output directory, which main gives as an absolute path: when
\* it is the working directory, shutil.copy2 raises SameFileError, which
\* is caught and False is returned.
RunCombinePdfsReturn ==
    /\ pc \in {"combine_script_ok", "combine_script_raised"}
    /\ IF pc = "combine_script_raised"
       THEN /\ returned' = Append(returned, FALSE)
            /\ pc' = AfterStage(FALSE, "done")
            /\ UNCHANGED <<fs, dirs>>
       ELSE \E same_file \in BOOLEAN :
               IF same_file
               THEN /\ returned' = Append(returned, FALSE)
                    /\ pc' = AfterStage(FALSE, "done")
                    /\ UNCHANGED <<fs, dirs>>
               ELSE /\ fs' = WriteFile(fs, Join(elsewhere, chm_name \o dot_pdf),
                                       fs[combined_pdf])
                    /\ dirs' = dirs \cup {elsewhere}
                    /\ returned' = Append(returned, TRUE)
                    /\ pc' = AfterStage(TRUE, "done")
    /\ UNCHANGED <<cloudVars, legacyVars, parseVars, mergeVars, chm, hhc_path,
                   started, conv_files, conv_result, normVars, textVars>>

----------------------------------------------------------------------------
(* a run of either program on a CHM file *)

\* the elements the table of contents of a run may hold
MainElements ==
    { El("param", Some(Local), Some(intro_htm)),
      El("param", Some(Local), Some(intro_htm \o <<"#", "s", "e", "c", "2">>)),
      El("param", Some(Local), Some(ch1_htm)),
      El("param", Some(<<"l", "o", "c", "a", "l">>), Some(<<"#", "t", "o", "p">>)) }

MaxHhc == 3

\* the CHM files a run may be given: a path that does not exist, a file
\* LoadCHM rejects, and archives with and without a table of contents
Archives ==
    {NoArchive, Archive(TRUE, FALSE, {}, None)} \cup
    {Archive(TRUE, TRUE, docs, toc) :
        docs \in SUBSET ArchiveDocs,
        toc \in {None} \cup {Some(t) : t \in SeqsUpTo(MainElements, MaxHhc)}}

\* a run starts in an empty working directory
\* what an earlier run on another archive has left: two ranked documents
\* and a PDF
old_page == <<"o", "l", "d">>
EarlierRun ==
    [p \in {Join(reorganized_dir, new_filename(1, intro_htm)),
            Join(reorganized_dir, new_filename(3, <<"o", "l", "d", ".", "h", "t", "m">>)),
            Join(pdf_dir, <<"0", "0", "0", "3", "_", "o", "l", "d", ".", "p", "d", "f">>)}
       |-> old_page]

Init ==
    /\ chm \in Archives
    /\ \/ fs = <<>> /\ dirs = {}
       \/ fs = EarlierRun /\ dirs = {reorganized_dir, pdf_dir}
    /\ hhc_path = None /\ started = <<>> /\ returned = <<>>
    /\ conv_files = <<>> /\ conv_result = <<>>
    /\ proc_files = <<>> /\ proc_result = <<>> /\ htm_files_sorted = <<>> /\ r_pos = 0
    /\ flat_passes = <<>> /\ html_content = <<>> /\ soup = <<>> /\ os_name = "posix"
    /\ hhc = <<>> /\ parse_pos = 0
    /\ html_files = <<>> /\ desired_order = <<>>
    /\ pos = 0 /\ last_copied = None /\ index = 1 /\ emitted = <<>>
    /\ l_pos = 0 /\ last_copied_filename = None /\ l_index = 1 /\ printed = <<>>
    /\ pdf_files = <<>> /\ m_pos = 0 /\ merger = <<>>
    /\ pc \in {"main", "legacy_main"}

Next ==
    \/ MainValidate
    \/ Extract
    \/ FindHhc
    \/ Organize
    \/ ParseHhcStep
    \/ OrganizeCopyFiles
    \/ CopyFilesStep
    \/ OrganizeRaised
    \/ OrganizeCopyAssets
    \/ ProcessAll
    \/ ProcessSingleFile
    \/ ProcessAllReturn
    \/ ConvertAll
    \/ ConvertSingleFile
    \/ ConvertAllReturn
    \/ MainCombine
    \/ CombineList
    \/ CombineSort
    \/ CombineAppend
    \/ CombineWrite
    \/ MainCombineReturn
    \/ LegacyValidate
    \/ ExtractChm
    \/ LegacyFindHhc
    \/ CreateOrderHtmScript
    \/ LegacyRunOrderHtm
    \/ OrderHtmParse
    \/ OrderHtmStep
    \/ LegacyOrderHtmReturn
    \/ CopyNonHtmFiles
    \/ RunRemoveText
    \/ RemoveTextStep
    \/ RunRemoveTextReturn
    \/ RunConvertToPdf
    \/ RunCombinePdfs
    \/ ScriptList
    \/ ScriptSort
    \/ ScriptAppend
    \/ ScriptWrite
    \/ RunCombinePdfsReturn

Spec == Init /\ [][Next]_vars

----------------------------------------------------------------------------
(* the claims about a whole run *)

\* the run is one of automation.py
ByLegacyMain == started # <<>> /\ started[1] = "extract_chm"

\* the table of contents [intro.htm, intro.htm#sec2, ch1.htm] over an
\* archive that holds intro.htm and ch1.htm
ScenarioToc ==
    << El("param", Some(Local), Some(<<"i", "n", "t", "r", "o", ".", "h", "t", "m">>)),
       El("param", Some(Local), Some(<<"i", "n", "t", "r", "o", ".", "h", "t", "m",
                                       "#", "s", "e", "c", "2">>)),
       El("param", Some(Local), Some(<<"c", "h", "1", ".", "h", "t", "m">>)) >>
Scenario ==
    /\ chm.found /\ chm.loads
    /\ chm.toc = Some(ScenarioToc)
    /\ {intro_htm, ch1_htm} \subseteq chm.docs

ScenarioNames ==
    << <<"0", "0", "0", "1", "_", "i", "n", "t", "r", "o", ".", "h", "t", "m">>,
       <<"0", "0", "0", "2", "_", "c", "h", "1", ".", "h", "t", "m">> >>
ScenarioPdfs ==
    << <<"p", "d", "f", "s", "/", "0", "0", "0", "1", "_", "i", "n", "t", "r", "o",
         ".", "p", "d", "f">>,
       <<"p", "d", "f", "s", "/", "0", "0", "0", "2", "_", "c", "h", "1", ".", "p", "d", "f">> >>
\* what the two documents of the archive hold
ScenarioPages == <<Join(extraction_dir, intro_htm), Join(extraction_dir, ch1_htm)>>

\* s with some of its two items left out
Kept(s) == {<<>>, <<s[1]>>, <<s[2]>>, s}

\* the sequencer of the run has returned
Sequenced ==
    IF ByLegacyMain THEN Len(returned) >= 4 ELSE Len(returned) >= 3
\* the documents lying at the top of the target directory
RankedDocuments ==
    {p \in DOMAIN fs : /\ p = Join(reorganized_dir, Basename(p))
                       /\ EndsWith(p, dot_htm) \/ EndsWith(p, dot_html)}

\* C9: in a run on the table of contents [intro.htm, intro.htm#sec2,
\* ch1.htm] over an archive holding intro.htm and ch1.htm, the sequencer
\* succeeds and emits exactly two ranked documents, 0001_intro.htm and
\* 0002_ch1.htm, copies of intro.htm and of ch1.htm; the sorted list of the
\* merge holds their PDFs in that order, and the merger is given the page
\* of intro.htm before the page of ch1.htm (a document that was not
\* rendered, or that the merger could not read, is left out).
C9_EndToEnd ==
    Scenario =>
        /\ Sequenced =>
              /\ returned[IF ByLegacyMain THEN 4 ELSE 3]
              /\ Names(IF ByLegacyMain THEN printed ELSE emitted) = ScenarioNames
              /\ RankedDocuments = {Join(reorganized_dir, ScenarioNames[1]),
                                    Join(reorganized_dir, ScenarioNames[2])}
              /\ fs[Join(reorganized_dir, ScenarioNames[1])] = ScenarioPages[1]
              /\ fs[Join(reorganized_dir, ScenarioNames[2])] = ScenarioPages[2]
        /\ pc \notin {"combine_sort", "combine_script_sort"} => pdf_files \in Kept(ScenarioPdfs)
        /\ merger \in Kept(ScenarioPages)
        /\ pc = "done" => fs[IF ByLegacyMain THEN combined_pdf ELSE output_path] = merger

\* automation_cloud.py has run to its end on the scenario, both documents
\* rendered and merged
C9_Witness ==
    /\ Scenario /\ ~ByLegacyMain
    /\ pc = "done"
    /\ merger = ScenarioPages

CloudStages ==
    <<"extract", "find_hhc_file", "organize", "process_all", "convert_all",
      "combine_pdfs">>
LegacyStages ==
    <<"extract_chm", "find_hhc_file", "create_order_htm_script", "run_order_htm",
      "copy_non_htm_files", "run_remove_text", "run_convert_to_pdf",
      "run_combine_pdfs">>
\* the stages of the program that runs
Stages == IF ByLegacyMain THEN LegacyStages ELSE CloudStages

\* C10: the stages of a run are started in the fixed order of its main;
\* a stage is started only when every stage before it has returned
\* success; once a stage has returned failure the process has exited with
\* status 1, and it exits so only then or when the CHM path does not
\* exist; the success message is reached exactly when every stage has
\* returned success.  An archive that does not load fails the first stage
\* and an archive without a .hhc file fails the second; in
\* automation_cloud.py a conversion that leaves no PDF to merge fails the
\* fifth.
C10_FatalErrorsHalt ==
    /\ Len(started) <= Len(Stages)
    /\ started = SubSeq(Stages, 1, Len(started))
    /\ Len(returned) \in {Len(started) - 1, Len(started)} \ {-1}
    /\ \A k \in 1..Len(returned) : k < Len(started) => returned[k]
    /\ (\E k \in 1..Len(returned) : ~returned[k]) => pc = "exit_1"
    /\ pc = "exit_1" =>
          \/ ~chm.found /\ started = <<>>
          \/ /\ Len(returned) = Len(started) /\ returned # <<>>
             /\ ~returned[Len(returned)]
    /\ pc = "done" <=>
          /\ Len(returned) = Len(Stages)
          /\ \A k \in 1..Len(returned) : returned[k]
    /\ (Len(returned) >= 1 /\ ~chm.loads) => ~returned[1]
    /\ (Len(returned) >= 2 /\ chm.toc = None) => ~returned[2]
    /\ (~ByLegacyMain /\ Len(returned) >= 5 /\ DirPdfs = {}) => ~returned[5]

\* automation_cloud.py has exited at its fifth stage: no document was
\* rendered
C10_Witness ==
    /\ pc = "exit_1"
    /\ started = SubSeq(CloudStages, 1, 5)
    /\ Len(returned) = 5 /\ ~returned[5]
    /\ DirPdfs = {}

----------------------------------------------------------------------------
(* the claims about the failures of a run *)

\* the references the parser yields from the table of contents of the
\* archive
TocReferences ==
    IF chm.toc = None THEN <<>>
    ELSE LET found == SelectSeq(chm.toc[1], LAMBDA el : IsLocalParam(el) /\ el.value # None)
         IN [k \in 1..Len(found) |-> RemoveFragment(found[k].value[1])]

\* the archive has a table of contents, and none of its references is a
\* document of the archive
NoneResolves ==
    /\ chm.found /\ chm.loads /\ chm.toc # None
    /\ \A k \in 1..Len(TocReferences) : TocReferences[k] \notin chm.docs

\* C11: in a run of automation_cloud.py on an archive none of whose
\* table-of-contents references is a document of the archive (the empty
\* table of contents included), no ranked document is emitted, the run
\* does not get past convert_all, which returns False, the merged PDF is
\* never written and the success message is never reached: once
\* convert_all has returned, the process has exited with status 1.
C11_ZeroResolvedIsFatal ==
    (NoneResolves /\ ~ByLegacyMain) =>
        /\ emitted = <<>>
        /\ Sequenced => RankedDocuments = {}
        /\ Len(started) <= 5
        /\ Len(returned) >= 5 => ~returned[5] /\ pc = "exit_1"
        /\ pc # "done"
        /\ ~IsFile(output_path)
        /\ merger = <<>>

\* automation_cloud.py has exited at convert_all: the table of contents
\* names one document, which the archive does not hold
C11_Witness ==
    /\ NoneResolves /\ ~ByLegacyMain
    /\ Len(TocReferences) = 1
    /\ pc = "exit_1"
    /\ returned = <<TRUE, TRUE, TRUE, TRUE, FALSE>>


\* the document the loop of removeText.py stood at when the script ended
\* before the end of its list
DocumentFailed ==
    /\ ByLegacyMain
    /\ pc \in {"remove_text_raised", "exit_1"}
    /\ r_pos < Len(htm_files_sorted)

\* C12 as stated: a document that fails in the normalizer is skipped, every
\* other document of the batch is still processed and the stage does not
\* end the run.  In removeText.py nothing catches what remove_show_framing
\* raises: the script ends at the document, the documents after it are
\* left as they were, run_remove_text returns False and main exits.
C12_AsClaimed ==
    /\ pc # "remove_text_raised"
    /\ ~DocumentFailed
    /\ (ByLegacyMain /\ Len(returned) >= 6) => returned[6]


\* every append of the merge loop of combine_pdfs has failed
EveryAppendFailed ==
    /\ ~ByLegacyMain
    /\ pdf_files # <<>>
    /\ m_pos = Len(pdf_files)
    /\ merger = <<>>

\* C13 as stated: a document that fails to render, or a PDF that fails to
\* append, is skipped and the rest is still handled, and a stage that is
\* left with nothing (every render failed, every append failed) returns
\* False and the run exits with status 1.  convert_all does so.
\* combine_pdfs writes the empty merger and returns True, and combinePDFs.py
\* ends at the first PDF it cannot append.
C13_AsClaimed ==
    /\ (~ByLegacyMain /\ Len(returned) >= 5 /\ successful_pdfs = {}) => ~returned[5]
    /\ (EveryAppendFailed /\ Len(returned) = 6) => ~returned[6] /\ pc = "exit_1"
    /\ pc # "combine_script_raised"


----------------------------------------------------------------------------
(* the workers of the pools *)

\* the items of seq at the positions in S, in the order of seq
Pick(seq, S) ==
    LET F[i \in 0..Len(seq)] ==
            IF i = 0 THEN <<>>
            ELSE IF i \in S THEN Append(F[i - 1], seq[i]) ELSE F[i - 1]
    IN F[Len(seq)]

\* the path the rendering worker of the k-th document writes
WorkerPdf(k) == Join(pdf_dir, PdfName(conv_files[k]))

\* the merge loop of combine_pdfs is running or has ended
Merging == ~ByLegacyMain /\ pc \in {"combine_append", "combine_ok", "done"}

\* C14: whatever the order in which the workers of the two pools run and
\* return, no two normalization workers write the same document, no two
\* rendering workers write the same PDF, and the merge loop goes through
\* the PDFs by strictly ascending rank: what the merger is given is, in the
\* order of the ranks, the pages of the PDFs it could read, each the page of
\* the document of its rank.
C14_OrderIndependence ==
    /\ pc = "processing" =>
          \A j, k \in 1..Len(proc_files) : j # k => proc_files[j] # proc_files[k]
    /\ pc = "converting" =>
          /\ \A j, k \in 1..Len(conv_files) :
                j # k => /\ WorkerPdf(j) # WorkerPdf(k)
                         /\ WorkerPdf(j) # conv_files[k]
          /\ \A j, k \in 1..Len(conv_files) :
                j < k => CloudKey(WorkerPdf(j)) < CloudKey(WorkerPdf(k))
          /\ \A k \in successful_pdfs : fs[WorkerPdf(k)] = fs[conv_files[k]]
    /\ Merging =>
          /\ \A j, k \in 1..Len(pdf_files) :
                j < k => CloudKey(pdf_files[j]) < CloudKey(pdf_files[k])
          /\ \A k \in 1..Len(pdf_files) :
                \E j \in successful_pdfs :
                    /\ pdf_files[k] = WorkerPdf(j)
                    /\ CloudKey(pdf_files[k]) = CloudKey(conv_files[j])
                    /\ fs[pdf_files[k]] = fs[conv_files[j]]
          /\ \E kept \in SUBSET (1..m_pos) :
                merger = Pick([k \in 1..Len(pdf_files) |-> fs[pdf_files[k]]], kept)

\* the worker of the second document has returned before the worker of the
\* first; both have written their PDF, each the page of its own document,
\* and the PDF of the first document has the smaller rank
C14_Witness ==
    /\ pc = "converting"
    /\ Len(conv_files) = 2
    /\ successful_pdfs = {1, 2}
    /\ conv_result[2].at < conv_result[1].at
    /\ fs[WorkerPdf(1)] = fs[conv_files[1]]
    /\ fs[WorkerPdf(2)] = fs[conv_files[2]]
    /\ fs[WorkerPdf(1)] # fs[WorkerPdf(2)]
    /\ CloudKey(WorkerPdf(1)) < CloudKey(WorkerPdf(2))


----------------------------------------------------------------------------
(* the flattening pass on its own: any HTML directory, given to            *)
(* _copy_assets_to_flat_structure or to copy_assets_to_flat_structure      *)

\* the passes run on one directory
MaxPasses == 2

\* one pass: the filesystem it found, the destinations it attempted a copy
\* onto, and the filesystem it left
Pass(before, attempted, after) ==
    [before |-> before, attempted |-> attempted, after |-> after]

\* HTMLProcessor._copy_assets_to_flat_structure
CopyAssetsToFlatStructure ==
    /\ pc = "flatten"
    /\ Len(flat_passes) < MaxPasses
    /\ fs' \in Flattenings
    /\ flat_passes' = Append(flat_passes,
                             Pass(fs, {Join(reorganized_dir, n) : n \in FlatNames}, fs'))
    /\ UNCHANGED <<dirs, cloudVars, legacyVars, parseVars, mergeVars, mainVars, normVars,
                   html_content, soup, os_name, pc>>

\* removeText.py: copy_assets_to_flat_structure, the same walk over
\* html_directory_path
copy_assets_to_flat_structure ==
    /\ pc = "flatten_script"
    /\ Len(flat_passes) < MaxPasses
    /\ fs' \in Flattenings
    /\ flat_passes' = Append(flat_passes,
                             Pass(fs, {Join(reorganized_dir, n) : n \in FlatNames}, fs'))
    /\ UNCHANGED <<dirs, cloudVars, legacyVars, parseVars, mergeVars, mainVars, normVars,
                   html_content, soup, os_name, pc>>

\* the files an HTML directory may hold, below the directory
FlatPool ==
    { logo_png,
      <<"c", "s", "s", "/", "l", "o", "g", "o", ".", "p", "n", "g">>,
      <<"l", "o", "g", "o", ".", "p", "n", "g">>,
      <<"c", "s", "s", "/", "s", "t", "y", "l", "e", ".", "c", "s", "s">>,
      sub_intro_htm }
\* what a file may hold
FlatContents == {<<"a">>, <<"b">>, Unreadable}

InitFlat ==
    /\ \E held \in SUBSET FlatPool :
          \E content \in [held -> FlatContents] :
              fs = [p \in {Join(reorganized_dir, f) : f \in held} |->
                       content[CHOOSE f \in held : Join(reorganized_dir, f) = p]]
    /\ dirs = {reorganized_dir} \cup UNION {ParentDirs(p) : p \in DOMAIN fs}
    /\ pc \in {"flatten", "flatten_script"}
    /\ flat_passes = <<>> /\ html_content = <<>> /\ soup = <<>> /\ os_name = "posix"
    /\ pdf_files = <<>> /\ m_pos = 0 /\ merger = <<>>
    /\ hhc = <<>> /\ parse_pos = 0
    /\ html_files = <<>> /\ desired_order = <<>>
    /\ pos = 0 /\ last_copied = None /\ index = 1 /\ emitted = <<>>
    /\ l_pos = 0 /\ last_copied_filename = None /\ l_index = 1 /\ printed = <<>>
    /\ chm = NoArchive /\ hhc_path = None /\ started = <<>> /\ returned = <<>>
    /\ conv_files = <<>> /\ conv_result = <<>>
    /\ proc_files = <<>> /\ proc_result = <<>> /\ htm_files_sorted = <<>> /\ r_pos = 0

NextFlat ==
    \/ CopyAssetsToFlatStructure
    \/ copy_assets_to_flat_structure

SpecFlat == InitFlat /\ [][NextFlat]_vars

\* C15: a flattening pass attempts no copy onto a destination that exists
\* and neither removes nor changes a file it found; a second pass on the
\* directory the first pass left leaves it as it found it: the same files,
\* each with the same content.
C15_FlatteningIdempotent ==
    /\ \A k \in 1..Len(flat_passes) :
          LET pass == flat_passes[k]
          IN /\ pass.attempted \cap DOMAIN pass.before = {}
             /\ DOMAIN pass.before \subseteq DOMAIN pass.after
             /\ \A p \in DOMAIN pass.before : pass.after[p] = pass.before[p]
    /\ \A k \in 2..Len(flat_passes) :
          /\ flat_passes[k].before = flat_passes[k - 1].after
          /\ flat_passes[k].after = flat_passes[k].before
    /\ flat_passes # <<>> => fs = flat_passes[1].after

\* two passes over a directory that holds logo.png in two subdirectories
\* and not at its top: the first pass has copied one of them to the top,
\* and the second pass has run
C15_Witness ==
    /\ Len(flat_passes) = 2
    /\ Join(reorganized_dir, logo_png) \in DOMAIN flat_passes[1].before
    /\ Join(reorganized_dir, <<"c", "s", "s", "/", "l", "o", "g", "o", ".", "p", "n", "g">>)
          \in DOMAIN flat_passes[1].before
    /\ flat_passes[1].before[Join(reorganized_dir, logo_png)] = <<"a">>
    /\ Join(reorganized_dir, <<"l", "o", "g", "o", ".", "p", "n", "g">>)
          \in flat_passes[1].attempted
    /\ fs[Join(reorganized_dir, <<"l", "o", "g", "o", ".", "p", "n", "g">>)] = <<"a">>


----------------------------------------------------------------------------
(* the rewriting of one document: _process_single_file of the cloud        *)
(* HTMLProcessor and remove_show_framing of removeText.py                  *)

\* an element of a document: its tag, the values of its rel attribute, its
\* src (img, script) or href (link) when it has one, and its text when it
\* has one
Node(tag, rel, ref, text) == [tag |-> tag, rel |-> rel, ref |-> ref, text |-> text]

RECURSIVE Replace(_, _, _)
\* str.replace(old, new)
Replace(s, old, new) ==
    IF Len(s) < Len(old) THEN s
    ELSE IF SubSeq(s, 1, Len(old)) = old
         THEN new \o Replace(SubSeq(s, Len(old) + 1, Len(s)), old, new)
         ELSE <<s[1]>> \o Replace(Tail(s), old, new)

\* sub in s
Contains(s, sub) ==
    \E i \in 1..(Len(s) - Len(sub) + 1) : SubSeq(s, i, i + Len(sub) - 1) = sub

\* the characters the literal replacements look for: the three characters
\* of the mis-encoded replacement character, and the no-break space
mojibake == <<"i-diaeresis", "inverted-question", "one-half">>
nbsp == "no-break-space"

\* the three replacements made on the text of the document before it is
\* parsed; they reach the attribute values and the texts alike
Clean(content) ==
    Replace(Replace(Replace(content, mojibake, <<" ">>), <<nbsp>>, <<" ">>),
            <<"x", "e", "2">>, <<" ">>)

\* BeautifulSoup(content, 'html.parser') on the cleaned text
BeautifulSoup(content) ==
    [k \in 1..Len(content) |->
        [content[k] EXCEPT
            !.ref = IF content[k].ref = None THEN None ELSE Some(Clean(content[k].ref[1])),
            !.text = IF content[k].text = None THEN None ELSE Some(Clean(content[k].text[1]))]]

\* os.path.basename: posixpath splits at "/", ntpath at "/" and at "\"
os_path_basename(p) ==
    LET seps == IF os_name = "nt" THEN Positions(p, "/") \cup Positions(p, "\\")
                ELSE Positions(p, "/")
    IN IF seps = {} THEN p ELSE SubSeq(p, Max(seps) + 1, Len(p))

stylesheet == <<"s", "t", "y", "l", "e", "s", "h", "e", "e", "t">>

\* find_all('link', rel="stylesheet"): one of the values of rel is,
\* letter for letter, stylesheet
MatchesRelStylesheet(el) ==
    el.tag = "link" /\ \E i \in 1..Len(el.rel) : el.rel[i] = stylesheet

\* _fix_asset_paths: the src of every img and script and the href of every
\* link found are replaced by their basename
fix_asset_paths(doc) ==
    [k \in 1..Len(doc) |->
        IF /\ doc[k].ref # None
           /\ doc[k].tag \in {"img", "script"} \/ MatchesRelStylesheet(doc[k])
        THEN [doc[k] EXCEPT !.ref = Some(os_path_basename(doc[k].ref[1]))]
        ELSE doc[k]]

\* removeText.py: fix_image_paths
fix_image_paths(doc) ==
    [k \in 1..Len(doc) |->
        IF doc[k].tag = "img" /\ doc[k].ref # None
        THEN [doc[k] EXCEPT !.ref = Some(os_path_basename(doc[k].ref[1]))]
        ELSE IF MatchesRelStylesheet(doc[k]) /\ doc[k].ref # None
        THEN [doc[k] EXCEPT !.ref = Some(os_path_basename(doc[k].ref[1]))]
        ELSE IF doc[k].tag = "script" /\ doc[k].ref # None
        THEN [doc[k] EXCEPT !.ref = Some(os_path_basename(doc[k].ref[1]))]
        ELSE doc[k]]

show_framing == <<"s", "h", "o", "w", " ", "f", "r", "a", "m", "i", "n", "g">>

\* string=lambda x: x and 'show framing' in x, on a script element
IsShowFraming(el) ==
    /\ el.tag = "script"
    /\ el.text # None /\ el.text[1] # <<>>
    /\ Contains(el.text[1], show_framing)

\* _process_single_file: every script find_all returns is decomposed
process_single_file(content) ==
    SelectSeq(fix_asset_paths(BeautifulSoup(content)), LAMBDA el : ~IsShowFraming(el))

\* remove_show_framing: the script soup.find returns, the first one, is
\* decomposed
remove_show_framing(content) ==
    LET doc == fix_image_paths(BeautifulSoup(content))
        found == {k \in 1..Len(doc) : IsShowFraming(doc[k])}
    IN IF found = {} THEN doc
       ELSE SubSeq(doc, 1, Min(found) - 1) \o SubSeq(doc, Min(found) + 1, Len(doc))

\* _process_single_file on the document
ProcessSingleFileMarkup ==
    /\ pc = "normalize"
    /\ soup' = process_single_file(html_content)
    /\ pc' = "normalized"
    /\ UNCHANGED <<fs, dirs, cloudVars, legacyVars, parseVars, mergeVars, mainVars, normVars,
                   flat_passes, html_content, os_name>>

\* remove_show_framing on the document
RemoveShowFraming ==
    /\ pc = "normalize_script"
    /\ soup' = remove_show_framing(html_content)
    /\ pc' = "normalized_script"
    /\ UNCHANGED <<fs, dirs, cloudVars, legacyVars, parseVars, mergeVars, mainVars, normVars,
                   flat_passes, html_content, os_name>>

\* the elements a document may hold
NodePool ==
    { Node("img", <<>>, Some(<<"s", "u", "b", "/", "i", "m", "g", "/", "p", ".", "p", "n", "g">>), None),
      Node("img", <<>>, Some(<<"i", "m", "g", "\\", "p", ".", "p", "n", "g">>), None),
      Node("img", <<>>, Some(<<"i", "m", "g", "/">>), None),
      Node("img", <<>>, Some(<<"i", "m", "g", "/", "a", "x", "e", "2", ".", "p", "n", "g">>), None),
      Node("img", <<>>, None, None),
      Node("link", <<stylesheet>>, Some(<<"c", "s", "s", "/", "s", ".", "c", "s", "s">>), None),
      Node("link", << <<"S", "t", "y", "l", "e", "S", "h", "e", "e", "t">> >>,
           Some(<<"c", "s", "s", "/", "s", ".", "c", "s", "s">>), None),
      Node("link", << <<"i", "c", "o", "n">> >>, Some(<<"i", "m", "g", "/", "f", ".", "i", "c", "o">>), None),
      Node("script", <<>>, Some(<<"j", "s", "/", "a", ".", "j", "s">>), None),
      Node("script", <<>>, None, Some(<<"/", "/", " ">> \o show_framing)),
      Node("script", <<>>, None, Some(show_framing \o <<"(", ")">>)),
      Node("script", <<>>, None, Some(<<"a", "l", "e", "r", "t", "(", ")">>)) }

\* the elements of a document
MaxTags == 2

InitNorm ==
    /\ html_content \in SeqsUpTo(NodePool, MaxTags)
    /\ os_name \in {"posix", "nt"}
    /\ pc \in {"normalize", "normalize_script"}
    /\ soup = <<>>
    /\ flat_passes = <<>>
    /\ fs = <<>> /\ dirs = {}
    /\ pdf_files = <<>> /\ m_pos = 0 /\ merger = <<>>
    /\ hhc = <<>> /\ parse_pos = 0
    /\ html_files = <<>> /\ desired_order = <<>>
    /\ pos = 0 /\ last_copied = None /\ index = 1 /\ emitted = <<>>
    /\ l_pos = 0 /\ last_copied_filename = None /\ l_index = 1 /\ printed = <<>>
    /\ chm = NoArchive /\ hhc_path = None /\ started = <<>> /\ returned = <<>>
    /\ conv_files = <<>> /\ conv_result = <<>>
    /\ proc_files = <<>> /\ proc_result = <<>> /\ htm_files_sorted = <<>> /\ r_pos = 0

NextNorm ==
    \/ ProcessSingleFileMarkup
    \/ RemoveShowFraming

SpecNorm == InitNorm /\ [][NextNorm]_vars


\* a document has been rewritten
Normalized == pc \in {"normalized", "normalized_script"}

\* the positions of the directory separators of a value
Separators(v) == Positions(v, "/") \cup Positions(v, "\\")
\* the final path segment of a value: what follows its last separator
FinalSegment(v) ==
    IF Separators(v) = {} THEN v ELSE SubSeq(v, Max(Separators(v)) + 1, Len(v))

\* the image, stylesheet-link and script elements that carry a reference;
\* the values of rel are compared without regard to case, as HTML does
AssetReferences(doc) ==
    SelectSeq(doc, LAMBDA el :
        /\ el.ref # None
        /\ \/ el.tag \in {"img", "script"}
           \/ el.tag = "link" /\ \E i \in 1..Len(el.rel) : Lower(el.rel[i]) = stylesheet)

\* C16 as stated: after a document is rewritten, the src of every image and
\* script and the href of every stylesheet link is the final path segment
\* of the value the document held, and holds no separator, also when the
\* value was written with backslashes or ends in a separator.
\* os.path.basename splits at "\" under ntpath only.
C16_AsClaimed ==
    Normalized =>
        LET before == AssetReferences(html_content)
            after == AssetReferences(soup)
        IN /\ Len(after) = Len(before)
           /\ \A k \in 1..Len(after) :
                 /\ after[k].ref[1] = FinalSegment(before[k].ref[1])
                 /\ Separators(after[k].ref[1]) = {}

\* the script elements of a document that satisfy P, as a sequence
MarkerScripts(doc) == SelectSeq(doc, LAMBDA el : IsShowFraming(el))
OtherScripts(doc) == SelectSeq(doc, LAMBDA el : el.tag = "script" /\ ~IsShowFraming(el))

\* C17 as stated: a rewritten document holds no script whose text contains
\* 'show framing', however many the document held, and holds every script
\* without the marker.  remove_show_framing removes the first such script
\* only.
C17_AsClaimed ==
    Normalized =>
        /\ MarkerScripts(soup) = <<>>
        /\ Len(OtherScripts(soup)) = Len(OtherScripts(html_content))


----------------------------------------------------------------------------
(* the two sequencers side by side *)

\* what a sequencer has emitted: the source path, the rank and the output
\* filename of each copy, and the position of its reference in the list
Triples(log) ==
    [k \in 1..Len(log) |->
        <<log[k].source_path, log[k].rank, log[k].output_filename, log[k].toc>>]

\* the loop of orderHTM.py has ended, at the end of its list or by raising
OrderHtmEnded ==
    \/ pc = "order_htm" /\ l_pos = Len(desired_order)
    \/ pc = "order_htm_raised"

\* C18: given the same list of references and the same extracted files,
\* orderHTM.py emits, copy for copy, what _copy_files_in_order has emitted:
\* the same source path, rank and output filename for the same reference;
\* when its loop has ended it has emitted the same list and has stopped at
\* the same reference, and it has raised exactly when _copy_files_in_order
\* has.
C18_SameSequence ==
    /\ desired_order = html_files
    /\ Len(printed) <= Len(emitted)
    /\ \A k \in 1..Len(printed) : Triples(printed)[k] = Triples(emitted)[k]
    /\ OrderHtmEnded =>
          /\ Triples(printed) = Triples(emitted)
          /\ l_pos = pos
          /\ l_index = index
          /\ last_copied_filename = last_copied
          /\ pc = "order_htm_raised" <=> pos < Len(html_files)
          /\ \A r \in 1..Len(printed) :
                fs[Join(reorganized_dir, printed[r].output_filename)]
                    = fs[printed[r].source_path]

\* both loops have gone through a list of four references, of which one
\* does not resolve and one repeats the basename copied before it, and have
\* emitted the same two documents
C18_Witness ==
    /\ OrderHtmEnded
    /\ pc = "order_htm"
    /\ Len(desired_order) = 4
    /\ Len(printed) = 2
    /\ Triples(printed) = Triples(emitted)
    /\ \E i \in 1..4 : ~IsFile(current_filename(desired_order[i]))
    /\ \E i \in 2..4 : /\ IsFile(current_filename(desired_order[i]))
                       /\ ~EmittedAt(printed, i)


----------------------------------------------------------------------------
(* the target directory of a run that follows an earlier run *)

\* what the sequencer of the run has emitted
SequencerLog == IF ByLegacyMain THEN printed ELSE emitted

\* the calls of a sequencer main has made
SequencerCalls == {k \in 1..Len(started) : started[k] \in {"organize", "run_order_htm"}}

\* the run has found the leftovers of an earlier run: the PDF directory
\* still holds its PDF
AfterEarlierRun ==
    IsFile(Join(pdf_dir, <<"0", "0", "0", "3", "_", "o", "l", "d", ".", "p", "d", "f">>))

\* C19: main calls the sequencer at most once; the copy loop starts on a
\* target directory that holds no ranked document; and once the sequencer
\* has returned, the ranked documents of the target directory are exactly
\* the documents emitted in this run, each a copy of its source: nothing an
\* earlier run has left is among them.
C19_FreshTarget ==
    /\ Cardinality(SequencerCalls) <= 1
    /\ (pc = "copy_files" /\ pos = 0) => RankedDocuments = {}
    /\ (pc = "order_htm" /\ l_pos = 0) => RankedDocuments = {}
    /\ Sequenced =>
          /\ RankedDocuments =
                {Join(reorganized_dir, SequencerLog[k].output_filename) :
                    k \in 1..Len(SequencerLog)}
          /\ \A k \in 1..Len(SequencerLog) :
                fs[Join(reorganized_dir, SequencerLog[k].output_filename)]
                    = fs[SequencerLog[k].source_path]
          /\ \A p \in RankedDocuments : fs[p] # old_page

\* a run that followed an earlier run: the sequencer has returned, having
\* emitted 0001_ch1.htm alone; the earlier run's 0001_intro.htm and
\* 0003_old.htm are gone
C19_Witness ==
    /\ AfterEarlierRun
    /\ Sequenced
    /\ Len(SequencerLog) = 1
    /\ SequencerLog[1].output_filename = new_filename(1, ch1_htm)
    /\ RankedDocuments = {Join(reorganized_dir, new_filename(1, ch1_htm))}
    /\ fs[Join(reorganized_dir, new_filename(1, ch1_htm))] = Join(extraction_dir, ch1_htm)


----------------------------------------------------------------------------
(* what the parsers return *)

\* the param elements of a table of contents whose name is local, whatever
\* the case of its letters, in the order of the markup
LocalParams(els) == SelectSeq(els, IsLocalParam)

\* _parse_hhc_file has returned
ParseHhcReturned ==
    \/ pc = "parse_hhc" /\ parse_pos = Len(hhc)
    \/ pc \in {"order_htm_parse", "order_htm", "order_htm_raised"}

\* list holds one entry for every local param of the table of contents, in
\* their order
OneEntryPerLocalParam(list) ==
    /\ Len(list) = Len(LocalParams(hhc))
    /\ \A k \in 1..Len(list) :
          /\ LocalParams(hhc)[k].value # None
          /\ list[k] = RemoveFragment(LocalParams(hhc)[k].value[1])

\* C20 as stated: the sequence a parser returns holds one entry for every
\* param element whose name is local (Local, LOCAL, local), in the order of
\* the markup, duplicates kept, and nothing for any other element.
\* A local param without a value attribute gets no entry from
\* _parse_hhc_file, and makes orderHTM.py raise KeyError.
C20_AsClaimed ==
    /\ ParseHhcReturned => OneEntryPerLocalParam(html_files)
    /\ pc # "order_htm_raised"
    /\ pc = "order_htm" => OneEntryPerLocalParam(desired_order)


\* the parsing lines of orderHTM.py have run
OrderHtmParsed == pc \in {"order_htm", "order_htm_raised"}

\* C21 as stated: whatever the table of contents holds, no matching param
\* or a local param without a value attribute included, a parser runs to
\* its end and returns a sequence, which may be empty; it does not raise.
\* _parse_hhc_file does.  The list comprehension of orderHTM.py raises
\* KeyError on the local param without a value, and the script ends there.
C21_AsClaimed ==
    /\ ParseHhcReturned => Len(html_files) <= Len(hhc)
    /\ OrderHtmParsed =>
          /\ pc = "order_htm"
          /\ desired_order = html_files


----------------------------------------------------------------------------
(* The asset copy of the reorganization, on extraction trees of its own *)

\* the files an extraction tree is drawn from: documents and tables of
\* contents with their extensions in either case, and assets at the top and
\* in subdirectories
AssetPool ==
    {intro_htm,
     <<"I", "N", "D", "E", "X", ".", "H", "T", "M">>,
     <<"s", "u", "b", "/", "p", "a", "g", "e", ".", "H", "t", "m", "l">>,
     book_hhc,
     <<"s", "u", "b", "/", "b", "o", "o", "k", ".", "H", "H", "K">>,
     <<"s", "t", "y", "l", "e", ".", "c", "s", "s">>,
     logo_png,
     <<"i", "m", "g", "/", "d", "e", "e", "p", "/", "a", ".", "g", "i", "f">>}

\* the copy loop has ended, having placed intro.htm at rank 1 when the tree
\* holds it, and the asset copy is the next step
InitAssets ==
    /\ \E held \in SUBSET AssetPool :
          LET ranked == IF intro_htm \in held THEN <<intro_htm>> ELSE <<>>
              placed == [k \in 1..Len(ranked) |-> Document(ranked[k], k, k)]
              target == [p \in {dst_path(k, base_filename(ranked[k])) : k \in 1..Len(ranked)}
                            |-> src_path(intro_htm)]
              tree == ExtractedFs(held)
          IN /\ fs = [p \in DOMAIN tree \cup DOMAIN target |->
                         IF p \in DOMAIN target THEN target[p] ELSE tree[p]]
             /\ dirs = ExtractedDirs(held) \cup {reorganized_dir}
             /\ html_files = ranked
             /\ \/ /\ pc = "copy_files"
                   /\ pos = Len(ranked) /\ index = Len(ranked) + 1 /\ emitted = placed
                   /\ last_copied = IF ranked = <<>> THEN None ELSE Some(intro_htm)
                   /\ desired_order = <<>>
                   /\ l_pos = 0 /\ last_copied_filename = None /\ l_index = 1
                   /\ printed = <<>>
                \/ /\ pc = "copy_non_htm_files"
                   /\ pos = 0 /\ index = 1 /\ emitted = <<>> /\ last_copied = None
                   /\ desired_order = ranked
                   /\ l_pos = Len(ranked) /\ l_index = Len(ranked) + 1
                   /\ printed = [k \in 1..Len(ranked) |->
                                    ScriptDocument(ranked[k], k, k)]
                   /\ last_copied_filename =
                         IF ranked = <<>> THEN None ELSE Some(intro_htm)
    /\ flat_passes = <<>> /\ html_content = <<>> /\ soup = <<>> /\ os_name = "posix"
    /\ pdf_files = <<>> /\ m_pos = 0 /\ merger = <<>>
    /\ hhc = <<>> /\ parse_pos = 0
    /\ chm = NoArchive /\ hhc_path = None /\ started = <<>> /\ returned = <<>>
    /\ conv_files = <<>> /\ conv_result = <<>>
    /\ proc_files = <<>> /\ proc_result = <<>> /\ htm_files_sorted = <<>> /\ r_pos = 0

NextAssets ==
    \/ OrganizeCopyAssets
    \/ CopyNonHtmFiles

SpecAssets == InitAssets /\ [][NextAssets]_vars

\* the asset copy has run
AssetsStepDone == pc \in {"process_all", "run_remove_text"}

\* a name ends, in either case, in one of the four extensions left out
EndsInLeftOut(name) ==
    \/ EndsWith(Lower(name), <<".", "h", "t", "m">>)
    \/ EndsWith(Lower(name), <<".", "h", "t", "m", "l">>)
    \/ EndsWith(Lower(name), <<".", "h", "h", "c">>)
    \/ EndsWith(Lower(name), <<".", "h", "h", "k">>)

\* the files under the extraction root, and the place in the target at the
\* same relative path
UnderExtractionRoot == {p \in DOMAIN fs : extraction_dir \in ParentDirs(p)}
SameRelativePath(p) == reorganized_dir \o SubSeq(p, Len(extraction_dir) + 1, Len(p))

\* a name that starts with a rank: four digits and an underscore
StartsWithRank(name) ==
    /\ Len(name) >= 5
    /\ \A i \in 1..4 : IsDigit(name[i])
    /\ name[5] = "_"

\* the .htm and .html files lying in the target directory itself
TopLevelHtml ==
    {p \in DOMAIN fs : /\ ParentDirs(p) = {reorganized_dir}
                       /\ \/ EndsWith(Lower(p), <<".", "h", "t", "m">>)
                          \/ EndsWith(Lower(p), <<".", "h", "t", "m", "l">>)}

\* C22: once the asset copy has run, every file under the extraction root
\* whose name does not end, in either case, in .htm, .html, .hhc or .hhk
\* lies in the target at the same relative path with the same content; no
\* file with one of the four extensions lies at its relative path in the
\* target; and the .htm and .html files at the top of the target are the
\* ranked ones alone.
C22_AssetCopy ==
    AssetsStepDone =>
        /\ \A p \in UnderExtractionRoot :
              IF EndsInLeftOut(Basename(p))
              THEN SameRelativePath(p) \notin DOMAIN fs
              ELSE /\ SameRelativePath(p) \in DOMAIN fs
                   /\ fs[SameRelativePath(p)] = fs[p]
                   /\ ParentDirs(SameRelativePath(p)) \subseteq dirs
        /\ \A p \in TopLevelHtml : StartsWithRank(Basename(p))

\* the asset copy has run on a tree that holds INDEX.HTM and style.css at
\* its top, sub/book.HHK and img/logo.png below, and the ranked intro.htm
C22_Witness ==
    /\ AssetsStepDone
    /\ {Join(extraction_dir, <<"I", "N", "D", "E", "X", ".", "H", "T", "M">>),
        Join(extraction_dir, <<"s", "u", "b", "/", "b", "o", "o", "k", ".", "H", "H", "K">>),
        Join(extraction_dir, logo_png),
        Join(extraction_dir, <<"s", "t", "y", "l", "e", ".", "c", "s", "s">>)}
          \subseteq DOMAIN fs
    /\ Join(reorganized_dir, logo_png) \in DOMAIN fs
    /\ TopLevelHtml # {}


----------------------------------------------------------------------------
(* collapse across directories *)

\* the directory part of a reference: what precedes its last "/"
DirectoryOf(ref) ==
    IF Positions(ref, "/") = {} THEN <<>>
    ELSE SubSeq(ref, 1, Max(Positions(ref, "/")) - 1)

\* the references at i and i + 1 name two existing files of one basename in
\* two directories
CrossDirectoryPair(list, i) ==
    /\ i + 1 <= Len(list)
    /\ list[i] # list[i + 1]
    /\ DirectoryOf(list[i]) # DirectoryOf(list[i + 1])
    /\ Basename(list[i]) = Basename(list[i + 1])
    /\ Resolves(list[i]) /\ Resolves(list[i + 1])

\* every emitted document's rank is the number of references emitted up to
\* its own: a reference that was passed over has taken no rank
RanksCountEmitted(log) ==
    \A k \in 1..Len(log) :
        log[k].rank = Cardinality({j \in 1..log[k].toc : EmittedAt(log, j)})

\* the statement of C23 as claimed: of such a pair the first is emitted and
\* the second is not, and the second takes no rank
FirstOfPairEmitted(list, done, log) ==
    /\ \A i \in 1..(done - 1) :
          CrossDirectoryPair(list, i) =>
              /\ EmittedAt(log, i)
              /\ ~EmittedAt(log, i + 1)
    /\ RanksCountEmitted(log)

SecondOfPairSkipped(list, done, log) ==
    /\ \A i \in 1..(done - 1) :
          CrossDirectoryPair(list, i) =>
              /\ ~EmittedAt(log, i + 1)
              /\ EmittedAt(log, i) <=> FreshAt(list, i)
              /\ \A k \in 1..Len(log) :
                    log[k].source_path # Join(extraction_dir, list[i + 1])
                        \/ log[k].toc # i + 1
    /\ RanksCountEmitted(log)

----------------------------------------------------------------------------
(* the emitted sequence has no adjacent repeats *)

\* the documents of consecutive ranks differ in basename, and every
\* document's source is a file under the extraction root
NoAdjacentRepeats(log) ==
    /\ \A j, k \in 1..Len(log) :
          log[k].rank = log[j].rank + 1 =>
              /\ Basename(log[j].source_path) # Basename(log[k].source_path)
              /\ SubSeq(log[j].output_filename, 6, Len(log[j].output_filename))
                    # SubSeq(log[k].output_filename, 6, Len(log[k].output_filename))
    /\ \A k \in 1..Len(log) :
          /\ IsFile(log[k].source_path)
          /\ extraction_dir \in ParentDirs(log[k].source_path)

\* C24: for any list of references and any set of extracted files, no two
\* emitted documents of consecutive ranks k and k + 1 have the same
\* basename, and the source path of every emitted document is a file of the
\* extracted set; of the cloud loop and of the generated script alike.
C24_NoAdjacentRepeats ==
    /\ NoAdjacentRepeats(emitted)
    /\ NoAdjacentRepeats(printed)

\* both loops are through four references of which one repeated the
\* basename copied before it, and have emitted three documents, the first
\* and the third of one basename
C24_Witness ==
    /\ pc = "order_htm" /\ l_pos = 4 /\ pos = 4
    /\ Len(emitted) = 3 /\ Len(printed) = 3
    /\ Basename(emitted[1].source_path) = Basename(emitted[3].source_path)
    /\ Basename(printed[1].source_path) = Basename(printed[3].source_path)
    /\ \E i \in 2..4 : /\ Resolves(html_files[i])
                       /\ ~EmittedAt(emitted, i) /\ ~EmittedAt(printed, i)


----------------------------------------------------------------------------
(* The normalizer stage from its start: the flattening and then the      *)
(* rewriting of the documents, on HTML directories of its own            *)

\* the ranked documents at the top of the HTML directory
PreparePool == {new_filename(1, intro_htm), new_filename(2, ch1_htm)}

\* the files below the ranked documents: logo.png in two subdirectories and
\* at the top, and a document in a subdirectory
PrepareFiles ==
    FlatPool \ {<<"c", "s", "s", "/", "s", "t", "y", "l", "e", ".", "c", "s", "s">>}

\* the reorganization has left ranked documents at the top of the HTML
\* directory and any files of PrepareFiles with them, and the normalizer stage of
\* either main is about to start
InitPrepare ==
    /\ \E ranked \in SUBSET PreparePool, held \in SUBSET PrepareFiles :
          \E content \in [held -> FlatContents] :
              fs = [p \in {Join(reorganized_dir, f) : f \in ranked \cup held} |->
                       IF \E f \in held : Join(reorganized_dir, f) = p
                       THEN content[CHOOSE f \in held : Join(reorganized_dir, f) = p]
                       ELSE p]
    /\ dirs = {reorganized_dir} \cup UNION {ParentDirs(p) : p \in DOMAIN fs}
    /\ pc \in {"process_all", "run_remove_text"}
    /\ flat_passes = <<>> /\ html_content = <<>> /\ soup = <<>> /\ os_name = "posix"
    /\ pdf_files = <<>> /\ m_pos = 0 /\ merger = <<>>
    /\ hhc = <<>> /\ parse_pos = 0
    /\ html_files = <<>> /\ desired_order = <<>>
    /\ pos = 0 /\ last_copied = None /\ index = 1 /\ emitted = <<>>
    /\ l_pos = 0 /\ last_copied_filename = None /\ l_index = 1 /\ printed = <<>>
    /\ chm = NoArchive /\ hhc_path = None /\ started = <<>> /\ returned = <<>>
    /\ conv_files = <<>> /\ conv_result = <<>>
    /\ proc_files = <<>> /\ proc_result = <<>> /\ htm_files_sorted = <<>> /\ r_pos = 0

NextPrepare ==
    \/ ProcessAll
    \/ ProcessSingleFile
    \/ ProcessAllReturn
    \/ RunRemoveText
    \/ RemoveTextStep
    \/ RunRemoveTextReturn

SpecPrepare == InitPrepare /\ [][NextPrepare]_vars

\* the step taken is the one that holds the flattening pass
FlatteningStep == pc \in {"process_all", "run_remove_text"}

\* the step taken rewrites a document
RewritingStep ==
    \/ pc = "processing" /\ proc_result' # proc_result /\ pc' = "processing"
    \/ pc = "remove_text" /\ r_pos' = r_pos + 1

\* the files at the top of the HTML directory and the assets below it
AtTopLevel(p) == ParentDirs(p) = {reorganized_dir}
SubdirectoryAssets ==
    {p \in DOMAIN fs : /\ reorganized_dir \in ParentDirs(p)
                       /\ ~AtTopLevel(p)
                       /\ ~EndsInLeftOut(Basename(p))}
\* the place at the top of the HTML directory for the name of p
TopLevelOf(p) == Join(reorganized_dir, Basename(p))

\* two assets of one name in two subdirectories
SameNamedAssets ==
    {pair \in SubdirectoryAssets \X SubdirectoryAssets :
        /\ pair[1] # pair[2]
        /\ Basename(pair[1]) = Basename(pair[2])}

\* the pass has run: every asset below the top that can be read has its name
\* at the top
Flattened ==
    \A p \in SubdirectoryAssets : fs[p] # Unreadable => TopLevelOf(p) \in DOMAIN fs

\* the pass changes no file it finds, at the top or below it
NothingOverwritten ==
    FlatteningStep => \A p \in DOMAIN fs : p \in DOMAIN fs' /\ fs'[p] = fs[p]

\* no document is rewritten before the pass has run, and the rewriting
\* leaves the assets where the pass left them
FlattenedFirst ==
    RewritingStep =>
        /\ Flattened
        /\ \A p \in DOMAIN fs : AtTopLevel(p) \/ p \in SubdirectoryAssets =>
              p \in DOMAIN fs' /\ fs'[p] = fs[p]

\* the statement of C25 as claimed: of two assets of one name in two
\* subdirectories the pass copies one to the top
C25_AsClaimed ==
    [][/\ NothingOverwritten
       /\ FlattenedFirst
       /\ FlatteningStep =>
             \A pair \in SameNamedAssets :
                 /\ TopLevelOf(pair[1]) \notin DOMAIN fs
                 /\ TopLevelOf(pair[1]) \in DOMAIN fs'
                 /\ fs'[TopLevelOf(pair[1])] \in {fs[pair[1]], fs[pair[2]]}]_vars

\* C25 (amended): the flattening pass has finished before any document is
\* rewritten; it leaves every file it finds, at the top or in the
\* subdirectories, in place and unchanged; and when assets in two
\* subdirectories share a name, then, if a file of that name lies at the top
\* already, neither is copied; otherwise one of them that can be read, the
\* first such one visited, is copied to the top and the others are skipped;
\* and if none of that name can be read, none is copied.
C25_FlattenFirstNoOverwrite ==
    [][/\ NothingOverwritten
       /\ FlattenedFirst
       /\ FlatteningStep =>
             \A pair \in SameNamedAssets :
                 LET top == TopLevelOf(pair[1])
                     readable == {p \in SubdirectoryAssets :
                                     Basename(p) = Basename(pair[1]) /\ fs[p] # Unreadable}
                 IN IF top \in DOMAIN fs
                    THEN fs'[top] = fs[top]
                    ELSE IF readable = {}
                         THEN top \notin DOMAIN fs'
                         ELSE /\ top \in DOMAIN fs'
                              /\ fs'[top] \in {fs[p] : p \in readable}]_vars

\* the pass has copied logo.png to the top from one of two subdirectories
\* that hold it with different content, and a document has been rewritten
C25_Witness ==
    /\ \/ pc = "processing" /\ \E k \in 1..Len(proc_result) : proc_result[k].done
       \/ pc = "remove_text" /\ r_pos >= 1
    /\ LET img == Join(reorganized_dir, logo_png)
           css == Join(reorganized_dir,
                       <<"c", "s", "s", "/", "l", "o", "g", "o", ".", "p", "n", "g">>)
       IN /\ {img, css} \subseteq DOMAIN fs
          /\ fs[img] = <<"a">> /\ fs[css] = <<"b">>
          /\ TopLevelOf(img) \in DOMAIN fs
          /\ fs[TopLevelOf(img)] = <<"b">>

====
